---- MODULE Spec2Model ----
(***************************************************************************)
(* Model of the Claude-compatible OpenAI relay:                            *)
(*   - the stream translator of ClaudeToOpenAIConverter                    *)
(*     (convertStreamChunk, _convertStreamEvent, _getStreamState,          *)
(*     _resetStreamState), with its process-wide map of stream states;     *)
(*   - the dispatch pipeline handleMessagesRequest of claudeOpenaiRoutes   *)
(*     (gates, account selection, sendToOpenAI, the stream 'data', 'end',  *)
(*     'error' handlers, the client 'close' handler, the 429 handling).    *)
(*                                                                         *)
(* Upstream bytes are sequences of symbols: NL is "\n", a positive number  *)
(* i is the text of the i-th line of UpstreamLines.                        *)
(***************************************************************************)
EXTENDS Integers, Sequences, FiniteSets, TLC

\* ------------------------------------------------------------------ bounds
\* Upstream lines one streamed request receives (Spec).
MaxFrames == 3
\* Upstream lines all requests together receive when two run at once (SpecTwo).
MaxFramesTwo == 3
\* Upstream lines a request receives under SpecDispatch.
MaxFramesDispatch == 1
\* Symbols the upstream may have produced and not yet delivered in a 'data' event.
MaxWire == 3
\* Messages of a request body given to convertRequest (SpecConvert).
MaxMessages == 2
\* Content blocks of all the messages of such a request body together.
MaxBlocks == 3
\* Upstream lines a session of tool calls receives (SpecTools).
MaxFramesTools == 4
\* Upstream lines a session of usage chunks receives (SpecUsage).
MaxFramesUsage == 4
\* Upstream lines a session receives whose upstream may end its body early (SpecTail).
MaxFramesTail == 3
\* Upstream lines the requests that share an account receive together (SpecShared).
MaxFramesShared == 1
\* Upstream lines a session receives from an upstream that answers (SpecStream).
MaxFramesStream == 3
\* Entries of message.tool_calls in a response given to convertResponse (SpecResponse).
MaxToolCalls == 2

\* ------------------------------------------------------- upstream alphabet
\* The symbol of "\n".
NL == 0

\* One tool_calls entry: id = 0 and args = 0 stand for an absent (falsy) field.
ToolCall(index, id, args) == [index |-> index, id |-> id, args |-> args]

\* The text after "data: " of one upstream line. kind "json" is a JSON object with
\* the fields the translator reads; content = 0 / reasoning = 0 are absent (falsy)
\* fields; prompt and completion are usage.prompt_tokens / usage.completion_tokens.
Json(choices, role, content, reasoning, tool_calls, finish, usage, prompt, completion) ==
  [kind |-> "json", choices |-> choices, role |-> role, content |-> content,
   reasoning |-> reasoning, tool_calls |-> tool_calls, finish |-> finish,
   usage |-> usage, prompt |-> prompt, completion |-> completion]

Delta(role, content, reasoning, tool_calls, finish) ==
  Json(TRUE, role, content, reasoning, tool_calls, finish, FALSE, 0, 0)

DoneLine == [Json(FALSE, FALSE, 0, 0, <<>>, FALSE, FALSE, 0, 0) EXCEPT !.kind = "done"]

GarbageLine == [Json(FALSE, FALSE, 0, 0, <<>>, FALSE, FALSE, 0, 0) EXCEPT !.kind = "garbage"]

\* The lines an upstream may send.
UpstreamLines ==
  << Delta(TRUE, 0, 0, <<>>, FALSE),                                \* 1 role
     Delta(FALSE, 1, 0, <<>>, FALSE),                               \* 2 content
     Delta(FALSE, 0, 1, <<>>, FALSE),                               \* 3 reasoning_content
     Delta(FALSE, 0, 0, <<ToolCall(0, 1, 0)>>, FALSE),              \* 4 tool 0 starts
     Delta(FALSE, 0, 0, <<ToolCall(1, 2, 1)>>, FALSE),              \* 5 tool 1 starts, arguments
     Delta(FALSE, 0, 0, <<ToolCall(0, 0, 2)>>, FALSE),              \* 6 arguments for tool 0
     Json(TRUE, FALSE, 0, 0, <<>>, TRUE, TRUE, 1, 2),               \* 7 finish_reason, usage
     DoneLine,                                                      \* 8 [DONE]
     Delta(FALSE, 2, 0, <<ToolCall(0, 3, 0)>>, FALSE),              \* 9 content and tool_calls
     GarbageLine,                                                   \* 10 not JSON
     Json(FALSE, FALSE, 0, 0, <<>>, FALSE, TRUE, 2, 0),             \* 11 no choices, usage
     Delta(FALSE, 3, 0, <<>>, FALSE),                               \* 12 content: a two-byte
                                                                    \*    character
     Delta(FALSE, 4, 0, <<>>, FALSE),                               \* 13 content: U+FFFD U+FFFD
     Delta(FALSE, 0, 0, <<ToolCall(0, 0, 3), ToolCall(1, 0, 4)>>, FALSE),  \* 14 arguments for
                                                                    \*    tool 0 and tool 1
     Delta(FALSE, 0, 0, <<ToolCall(0, 3, 5)>>, FALSE),              \* 15 tool 0 starts anew,
                                                                    \*    arguments
     Delta(FALSE, 0, 0, <<>>, TRUE),                                \* 16 finish_reason
     Json(TRUE, FALSE, 0, 0, <<>>, FALSE, TRUE, 3, 4),              \* 17 usage
     Json(TRUE, FALSE, 0, 0, <<>>, FALSE, TRUE, 5, 0)               \* 18 usage, no
                                                                    \*    completion_tokens
  >>

LineIds == 1..Len(UpstreamLines)

\* The bytes of line 12 up to and with the first byte of its character, and the bytes
\* from the second byte of the character on.
Lead == 21

Cont == 22

\* The text of Lead and of Cont decoded apart: the lone byte of the character has
\* become U+FFFD. LeadLost followed by ContLost is the text of line 13.
LeadLost == 23

ContLost == 24

\* The bytes of a line as the upstream sends it.
Bytes(l) == IF l = 12 THEN <<Lead, Cont>> ELSE <<l>>

\* chunk.toString(): UTF-8 decoding of one chunk. A character whose bytes are all in
\* the chunk is decoded; a first byte without its second and a second byte without
\* its first each become U+FFFD.
RECURSIVE Decode(_)
Decode(chunk) ==
  IF chunk = <<>> THEN <<>>
  ELSE IF Head(chunk) = Lead /\ Len(chunk) >= 2 /\ chunk[2] = Cont
  THEN <<12>> \o Decode(SubSeq(chunk, 3, Len(chunk)))
  ELSE IF Head(chunk) = Lead THEN <<LeadLost>> \o Decode(Tail(chunk))
  ELSE IF Head(chunk) = Cont THEN <<ContLost>> \o Decode(Tail(chunk))
  ELSE <<Head(chunk)>> \o Decode(Tail(chunk))

\* The text after "data: " of a line of the decoded string: the text of one upstream
\* line, or text that JSON.parse rejects.
LineData(line) ==
  IF Len(line) = 1 /\ line[1] \in LineIds THEN UpstreamLines[line[1]]
  ELSE IF line = <<LeadLost, ContLost>> THEN UpstreamLines[13]
  ELSE GarbageLine

\* ------------------------------------------------------------ stream state
\* The state _getStreamState creates. toolBlocks is a Map: its keys in insertion order.
NewStreamState ==
  [messageStarted |-> FALSE, textBlockStarted |-> FALSE, thinkingBlockStarted |-> FALSE,
   toolBlocks |-> <<>>, contentBlockIndex |-> 0, inputTokens |-> 0, outputTokens |-> 0]

\* One downstream SSE event. index = -1 for the message_* events; val is the payload:
\* the text or arguments fragment, the tool id, or message_delta's output_tokens.
Ev(ev, index, kind, val) == [ev |-> ev, index |-> index, kind |-> kind, val |-> val]

MaxOf(S) == CHOOSE x \in S : \A y \in S : y <= x

ToolKeys(toolBlocks) == {toolBlocks[i].index : i \in 1..Len(toolBlocks)}

ToolHas(toolBlocks, index) == index \in ToolKeys(toolBlocks)

\* Map.set: an existing key keeps its place in the iteration order.
ToolSet(toolBlocks, index, id) ==
  IF ToolHas(toolBlocks, index)
  THEN [i \in 1..Len(toolBlocks) |->
          IF toolBlocks[i].index = index THEN [index |-> index, id |-> id] ELSE toolBlocks[i]]
  ELSE Append(toolBlocks, [index |-> index, id |-> id])

\* A step of _convertStreamEvent works on w = [st |-> state, ev |-> events so far].
Emit(w, e) == [w EXCEPT !.ev = Append(@, e)]

\* ------------------------------------------------------ _convertStreamEvent
\* if (delta.role && !state.messageStarted): reset the state, emit message_start.
MessageInit(w, c) ==
  IF c.role /\ ~w.st.messageStarted
  THEN Emit([w EXCEPT !.st = [NewStreamState EXCEPT !.messageStarted = TRUE]],
            Ev("message_start", -1, "message", 0))
  ELSE w

\* A slip in the closing of a thinking block: thinkingBlockStarted is left set.
StopThinkingBlockKeepsFlag(w) ==
  IF w.st.thinkingBlockStarted
  THEN LET i == w.st.contentBlockIndex
           w1 == Emit(w, Ev("content_block_delta", i, "signature_delta", 0))
           w2 == Emit(w1, Ev("content_block_stop", i, "stop", 0))
       IN [w2 EXCEPT !.st.contentBlockIndex = i + 1]
  ELSE w

\* A slip in the closing of a thinking block: no signature_delta is flushed.
StopThinkingBlockNoSignature(w) ==
  IF w.st.thinkingBlockStarted
  THEN LET i == w.st.contentBlockIndex
           w1 == Emit(w, Ev("content_block_stop", i, "stop", 0))
       IN [w1 EXCEPT !.st.contentBlockIndex = i + 1, !.st.thinkingBlockStarted = FALSE]
  ELSE w

\* An open thinking block is closed: signature_delta, content_block_stop, index + 1.
StopThinkingBlock(w) ==
  IF w.st.thinkingBlockStarted
  THEN LET i == w.st.contentBlockIndex
           w1 == Emit(w, Ev("content_block_delta", i, "signature_delta", 0))
           w2 == Emit(w1, Ev("content_block_stop", i, "stop", 0))
       IN [w2 EXCEPT !.st.contentBlockIndex = i + 1, !.st.thinkingBlockStarted = FALSE]
  ELSE w

\* An open text block is closed: content_block_stop, index + 1.
StopTextBlock(w) ==
  IF w.st.textBlockStarted
  THEN LET i == w.st.contentBlockIndex
           w1 == Emit(w, Ev("content_block_stop", i, "stop", 0))
       IN [w1 EXCEPT !.st.contentBlockIndex = i + 1, !.st.textBlockStarted = FALSE]
  ELSE w

\* for (const [index] of state.toolBlocks): one content_block_stop per open tool
\* block, in the Map's iteration order.
RECURSIVE StopEachTool(_, _)
StopEachTool(evs, toolBlocks) ==
  IF toolBlocks = <<>> THEN evs
  ELSE StopEachTool(Append(evs, Ev("content_block_stop", Head(toolBlocks).index, "stop", 0)),
                    Tail(toolBlocks))

\* The text and reasoning branches close the open tool blocks: the Map is cleared
\* first, and the new index is computed from the keys of the cleared Map.
StopToolBlocks(w) ==
  IF Len(w.st.toolBlocks) > 0
  THEN LET evs == StopEachTool(w.ev, w.st.toolBlocks)
           cleared == <<>>
       IN [st |-> [w.st EXCEPT !.toolBlocks = cleared,
                               !.contentBlockIndex =
                                  MaxOf({w.st.contentBlockIndex} \cup ToolKeys(cleared)) + 1],
           ev |-> evs]
  ELSE w

StartTextBlock(w) ==
  IF ~w.st.textBlockStarted
  THEN [Emit(w, Ev("content_block_start", w.st.contentBlockIndex, "text", 0))
          EXCEPT !.st.textBlockStarted = TRUE]
  ELSE w

StartThinkingBlock(w) ==
  IF ~w.st.thinkingBlockStarted
  THEN [Emit(w, Ev("content_block_start", w.st.contentBlockIndex, "thinking", 0))
          EXCEPT !.st.thinkingBlockStarted = TRUE]
  ELSE w

\* if (delta.content)
TextBranch(w, c) ==
  LET w1 == StartTextBlock(StopToolBlocks(StopThinkingBlock(w)))
  IN Emit(w1, Ev("content_block_delta", w1.st.contentBlockIndex, "text_delta", c.content))

\* else if (delta.reasoning_content)
ReasoningBranch(w, c) ==
  LET w1 == StartThinkingBlock(StopToolBlocks(StopTextBlock(w)))
  IN Emit(w1, Ev("content_block_delta", w1.st.contentBlockIndex, "thinking_delta", c.reasoning))

\* A slip in the tool_calls loop: a block open at the same upstream index is not
\* closed before the new one is started.
ToolCallStepNoStop(w, tc) ==
  LET index == tc.index
      w1 == IF tc.id # 0
            THEN Emit([w EXCEPT !.st.toolBlocks = ToolSet(@, index, tc.id)],
                      Ev("content_block_start", index, "tool_use", tc.id))
            ELSE w
  IN IF tc.args # 0
     THEN Emit(w1, Ev("content_block_delta", index, "input_json_delta", tc.args))
     ELSE w1

\* The body of for (const toolCall of delta.tool_calls).
ToolCallStep(w, tc) ==
  LET index == tc.index
      w1 == IF tc.id # 0
            THEN LET a == IF ToolHas(w.st.toolBlocks, index)
                          THEN Emit(w, Ev("content_block_stop", index, "stop", 0))
                          ELSE w
                     b == [a EXCEPT !.st.toolBlocks = ToolSet(@, index, tc.id)]
                 IN Emit(b, Ev("content_block_start", index, "tool_use", tc.id))
            ELSE w
  IN IF tc.args # 0
     THEN Emit(w1, Ev("content_block_delta", index, "input_json_delta", tc.args))
     ELSE w1

RECURSIVE ToolCallLoop(_, _)
ToolCallLoop(w, tcs) ==
  IF tcs = <<>> THEN w ELSE ToolCallLoop(ToolCallStep(w, Head(tcs)), Tail(tcs))

\* A slip in the tool_calls branch: an open text block is not closed first.
ToolCallsBranchKeepsText(w, c) ==
  ToolCallLoop(StopThinkingBlock(w), c.tool_calls)

\* else if (Array.isArray(delta.tool_calls) && delta.tool_calls.length > 0)
ToolCallsBranch(w, c) ==
  ToolCallLoop(StopThinkingBlock(StopTextBlock(w)), c.tool_calls)

\* A slip in the choice of the content branch: every field present drives its branch.
ContentBranchesEach(w, c) ==
  LET w1 == IF c.content # 0 THEN TextBranch(w, c) ELSE w
      w2 == IF c.reasoning # 0 THEN ReasoningBranch(w1, c) ELSE w1
  IN IF Len(c.tool_calls) > 0 THEN ToolCallsBranch(w2, c) ELSE w2

\* The three content branches: text, else reasoning_content, else tool_calls.
ContentBranches(w, c) ==
  IF c.content # 0 THEN TextBranch(w, c)
  ELSE IF c.reasoning # 0 THEN ReasoningBranch(w, c)
  ELSE IF Len(c.tool_calls) > 0 THEN ToolCallsBranch(w, c)
  ELSE w

\* A slip in the usage update: a zero count replaces the stored one.
UsageUpdateOverwrites(w, c) ==
  IF c.usage
  THEN [w EXCEPT !.st.inputTokens = c.prompt, !.st.outputTokens = c.completion]
  ELSE w

\* if (openaiChunk.usage): a zero (falsy) count leaves the stored one.
UsageUpdate(w, c) ==
  IF c.usage
  THEN [w EXCEPT !.st.inputTokens = IF c.prompt # 0 THEN c.prompt ELSE @,
                 !.st.outputTokens = IF c.completion # 0 THEN c.completion ELSE @]
  ELSE w

\* if (choice.finish_reason): close what is open (the index does not advance),
\* then message_delta.
FinishBranch(w, c) ==
  IF c.finish
  THEN LET i == w.st.contentBlockIndex
           w1 == IF w.st.thinkingBlockStarted
                 THEN [Emit(Emit(w, Ev("content_block_delta", i, "signature_delta", 0)),
                            Ev("content_block_stop", i, "stop", 0))
                         EXCEPT !.st.thinkingBlockStarted = FALSE]
                 ELSE w
           w2 == IF w1.st.textBlockStarted
                 THEN [Emit(w1, Ev("content_block_stop", i, "stop", 0))
                         EXCEPT !.st.textBlockStarted = FALSE]
                 ELSE w1
           w3 == IF Len(w2.st.toolBlocks) > 0
                 THEN [st |-> [w2.st EXCEPT !.toolBlocks = <<>>],
                       ev |-> StopEachTool(w2.ev, w2.st.toolBlocks)]
                 ELSE w2
       IN Emit(w3, Ev("message_delta", -1, "message",
                      w3.st.inputTokens + w3.st.outputTokens))
  ELSE w

\* _convertStreamEvent on the state st of the session: the new state and the events.
\* A chunk with a missing or empty choices list returns before anything else.
ConvertStreamEvent(st, c) ==
  IF ~c.choices THEN [st |-> st, ev |-> <<>>]
  ELSE FinishBranch(UsageUpdate(ContentBranches(MessageInit([st |-> st, ev |-> <<>>], c), c), c), c)

\* -------------------------------------------------------- convertStreamChunk
\* The converter's process-wide Map of stream states: a function whose domain is
\* the set of keys present.
\* A slip in the key of the Map: one key for every session.
SessionKeyShared(sessionId) == "default"

SessionKey(sessionId) == IF sessionId = "" THEN "default" ELSE sessionId

\* _getStreamState: the entry is created when the key is absent.
GetStreamState(map, sessionId) ==
  IF SessionKey(sessionId) \in DOMAIN map
  THEN map
  ELSE (SessionKey(sessionId) :> NewStreamState) @@ map

\* _resetStreamState: Map.delete.
ResetStreamState(map, sessionKey) ==
  [k \in (DOMAIN map) \ {sessionKey} |-> map[k]]

\* chunk.split('\n'): the pieces between single NL symbols.
RECURSIVE SplitLines(_, _)
SplitLines(bytes, cur) ==
  IF bytes = <<>> THEN <<cur>>
  ELSE IF Head(bytes) = NL THEN <<cur>> \o SplitLines(Tail(bytes), <<>>)
  ELSE SplitLines(Tail(bytes), Append(cur, Head(bytes)))

\* chunk.trim() === '': nothing but newlines.
IsBlank(bytes) == \A i \in 1..Len(bytes) : bytes[i] = NL

\* A slip in the handling of a line that JSON.parse rejects: the session's state is
\* reset.
ConvertLineGarbageResets(m, line, sessionId) ==
  LET data == LineData(line)
  IN IF data.kind \in {"done", "garbage"}
     THEN [map |-> ResetStreamState(m.map, SessionKey(sessionId)),
           ev |-> IF data.kind = "done"
                  THEN Append(m.ev, Ev("message_stop", -1, "message", 0)) ELSE m.ev]
     ELSE LET map1 == GetStreamState(m.map, sessionId)
              r == ConvertStreamEvent(map1[SessionKey(sessionId)], data)
          IN [map |-> [map1 EXCEPT ![SessionKey(sessionId)] = r.st],
              ev |-> m.ev \o r.ev]

\* One line of a frame, m = [map |-> the Map, ev |-> events so far]. A line that is
\* the text of exactly one upstream line is a "data: " line; text run together from
\* several lines still starts with "data: " and fails JSON.parse.
ConvertLine(m, line, sessionId) ==
  LET data == LineData(line)
  IN IF data.kind = "done"
     THEN [map |-> ResetStreamState(m.map, SessionKey(sessionId)),
           ev |-> Append(m.ev, Ev("message_stop", -1, "message", 0))]
     ELSE IF data.kind = "garbage" THEN m
     ELSE LET map1 == GetStreamState(m.map, sessionId)
              r == ConvertStreamEvent(map1[SessionKey(sessionId)], data)
          IN [map |-> [map1 EXCEPT ![SessionKey(sessionId)] = r.st],
              ev |-> m.ev \o r.ev]

RECURSIVE ConvertLines(_, _, _)
ConvertLines(m, lines, sessionId) ==
  IF lines = <<>> THEN m
  ELSE ConvertLines(ConvertLine(m, Head(lines), sessionId), Tail(lines), sessionId)

\* convertStreamChunk(chunk, sessionId) on the Map: the new Map and the events of
\* the string it returns.
ConvertStreamChunk(map, chunk, sessionId) ==
  IF IsBlank(chunk) THEN [map |-> map, ev |-> <<>>]
  ELSE ConvertLines([map |-> map, ev |-> <<>>], SplitLines(chunk, <<>>), sessionId)

\* ------------------------------------------------------------ the SSE loop
\* buffer.split('\n\n'): the pieces between NL NL, scanned left to right.
RECURSIVE SplitFrames(_, _)
SplitFrames(bytes, cur) ==
  IF bytes = <<>> THEN <<cur>>
  ELSE IF Len(bytes) >= 2 /\ bytes[1] = NL /\ bytes[2] = NL
       THEN <<cur>> \o SplitFrames(SubSeq(bytes, 3, Len(bytes)), <<>>)
       ELSE SplitFrames(Tail(bytes), Append(cur, Head(bytes)))

HasJson(line) ==
  \/ \E i \in 1..Len(line) : line[i] \in LineIds /\ UpstreamLines[line[i]].kind = "json"
  \/ line = <<LeadLost, ContLost>>

\* The usage sniffing of the 'data' handler: the frame must contain "usage"; the
\* first "data: {...}" of the frame is parsed; its usage object, when it has one,
\* replaces both totals (prompt_tokens || 0, completion_tokens || 0).
SniffUsage(totals, frame) ==
  LET lines == SplitLines(frame, <<>>)
      mentions == \E i \in 1..Len(frame) :
                    frame[i] \in LineIds /\ UpstreamLines[frame[i]].kind = "json"
                                         /\ UpstreamLines[frame[i]].usage
      cands == {i \in 1..Len(lines) : HasJson(lines[i])}
  IN IF ~mentions \/ cands = {} THEN totals
     ELSE LET line == lines[CHOOSE i \in cands : \A j \in cands : i <= j]
          IN IF LineData(line).usage
             THEN [input |-> LineData(line).prompt, output |-> LineData(line).completion]
             ELSE totals

\* The loop of the 'data' handler over the complete frames; d is the handler's
\* working state: the converter's Map, the usage totals, the events written to the
\* response and the frames handed to the converter.
DataFrame(d, frame, sessionId) ==
  IF IsBlank(frame) THEN d
  ELSE LET r == ConvertStreamChunk(d.map, frame, sessionId)
       IN [map |-> r.map,
           totals |-> SniffUsage(d.totals, frame),
           written |-> d.written \o r.ev,
           frames |-> Append(d.frames, frame)]

RECURSIVE DataFrames(_, _, _)
DataFrames(d, frames, sessionId) ==
  IF frames = <<>> THEN d
  ELSE DataFrames(DataFrame(d, Head(frames), sessionId), Tail(frames), sessionId)

\* The frames a chunk completes, and the tail kept in the buffer (lines.pop() || '').
CompleteFrames(bytes) ==
  LET pieces == SplitFrames(bytes, <<>>) IN SubSeq(pieces, 1, Len(pieces) - 1)

TailBuffer(bytes) ==
  LET pieces == SplitFrames(bytes, <<>>) IN pieces[Len(pieces)]

\* ------------------------------------------------------------------ state
Requests == {"r1", "r2"}

\* const sessionId = `msg_${Math.random()...}`: one id per request, taken distinct.
SessionId(r) == IF r = "r1" THEN "msg_1" ELSE "msg_2"

VARIABLES
  pc,            \* where each request's handler is
  req,           \* the request and its API key: the inputs of handleMessagesRequest
  acct,          \* accountData of the selected account: "none", "valid", "redacted", "nokey"
  wire,          \* bytes the upstream has produced, not yet delivered in a 'data' event
  buffer,        \* the 'data' handler's tail buffer
  totals,        \* totalInputTokens, totalOutputTokens
  streamStates,  \* the converter's Map of stream states
  written,       \* the events written to the response with res.write
  res,           \* the response: status and body sent, headersSent, ended
  up,            \* the upstream stream: "none", "open", "ended", "errored", "destroyed"
  err,           \* the error caught by the catch block that awaits markAccountRateLimited
  calls,         \* the calls made to the collaborators for each request
  fed,           \* the frames handed to convertStreamChunk for each request
  remaining,     \* upstream lines still to come
  answered,      \* the status the upstream answered with (0: no answer yet, or none)
  delivered,     \* the upstream bytes handed to the 'data' handler so far
  claudeRequest, \* a request body given to convertRequest
  openaiRequest, \* what convertRequest returned for it
  openaiResponse, \* a parsed upstream response given to convertResponse
  claudeResponse, \* what convertResponse returned for it, or that it threw
  rateLimit,     \* the scheduler's rate-limit flag of the upstream account, and the
                 \* requests that were in flight when it was last set
  world          \* what the collaborators and the upstream may answer: "any"; "account",
                 \* a usable account is found, at once or by the refetch; "healthy",
                 \* the account is found at once and the upstream keeps to the protocol;
                 \* "tools", as "healthy" with an upstream that sends tool_calls deltas;
                 \* "usage", as "healthy" with an upstream that sends usage chunks;
                 \* "tail", as "healthy" with an upstream whose body may end without
                 \* the blank line after its last line; "shared", the requests are
                 \* the only users of the account, whose upstream may answer 429;
                 \* "stream", as "healthy" with an upstream that sends content of every
                 \* kind, several kinds in one delta, and lines that are not JSON

\* The inputs and the outputs of the request and of the response conversion.
conv == <<claudeRequest, openaiRequest, openaiResponse, claudeResponse>>

vars == <<pc, req, acct, wire, buffer, totals, streamStates, written, res, up, err,
          calls, fed, remaining, answered, delivered, world, rateLimit, conv>>

\* ------------------------------------------------------- responses, errors
\* A response body: type is the top-level "type", errType is error.type ("absent"
\* when the body has none), hasMessage tells whether error.message is there.
Body(type, errType, hasMessage) ==
  [type |-> type, errType |-> errType, hasMessage |-> hasMessage]

Envelope(errType) == Body("error", errType, TRUE)

NoResponse == [status |-> 0, body |-> Body("none", "absent", FALSE), headersSent |-> FALSE,
               ended |-> FALSE, sends |-> 0, ends |-> 0]

\* res.status(status).json(body)
SendJson(rs, status, body) ==
  [rs EXCEPT !.status = status, !.body = body, !.headersSent = TRUE, !.ended = TRUE,
             !.sends = @ + 1, !.ends = @ + 1]

\* error.body of a failed upstream request. text: "none" (empty), "text" (not JSON),
\* "json"; object: the JSON is a non-null object; msgSeconds: the seconds computed
\* from a matching timestamp in msg (-1: no msg, or no match); resets:
\* resets_in_seconds (0: absent).
ErrBody(text, object, type, errType, hasMessage, msgSeconds, resets) ==
  [text |-> text, object |-> object, type |-> type, errType |-> errType,
   hasMessage |-> hasMessage, msgSeconds |-> msgSeconds, resets |-> resets]

NoBody == ErrBody("none", FALSE, "absent", "absent", FALSE, -1, 0)

ErrorBodies ==
  { NoBody,
    ErrBody("text", FALSE, "absent", "absent", FALSE, -1, 0),
    ErrBody("json", FALSE, "absent", "absent", FALSE, -1, 0),          \* null, a number
    ErrBody("json", TRUE, "absent", "upstream", TRUE, -1, 0),          \* {error:{type,message}}
    ErrBody("json", TRUE, "error", "upstream", TRUE, -1, 0),           \* {type:"error",error:{..}}
    ErrBody("json", TRUE, "absent", "absent", FALSE, 5, 7),            \* {msg, resets_in_seconds}
    ErrBody("json", TRUE, "absent", "absent", FALSE, 0, 7),
    ErrBody("json", TRUE, "absent", "absent", FALSE, -1, 7) }

\* A thrown error: status 0 is an error without status (a transport error).
Thrown(status, body) == [status |-> status, body |-> body]

NoError == Thrown(0, NoBody)

\* const status = error.status || error.response?.status || 500
CaughtStatus(e) == IF e.status # 0 THEN e.status ELSE 500

\* The reset time extracted from a 429 body; -1 is null.
ResetsInSeconds(e) ==
  IF e.body.text = "json" /\ e.body.object
  THEN LET fromMsg == e.body.msgSeconds
       IN IF (fromMsg = -1 \/ fromMsg = 0) /\ e.body.resets # 0
          THEN e.body.resets
          ELSE fromMsg
  ELSE -1

\* The payload of the catch blocks: the parsed error.body when it is an object,
\* else the default envelope (its message is the body text or error.message).
ErrorPayload(e) ==
  IF e.body.text = "json" /\ e.body.object
  THEN Body(e.body.type, e.body.errType, e.body.hasMessage)
  ELSE Envelope("api_error")

\* A slip at the end of the stream catch block: res.end() is called after the JSON
\* response too.
StreamCatchReplyEndsToo(rs, e) ==
  [SendJson(rs, CaughtStatus(e), ErrorPayload(e)) EXCEPT !.ends = @ + 1]

\* The end of the stream catch block: if (!res.headersSent) ... else res.end()
StreamCatchReply(rs, e) ==
  IF ~rs.headersSent
  THEN SendJson(rs, CaughtStatus(e), ErrorPayload(e))
  ELSE [rs EXCEPT !.ended = TRUE, !.ends = @ + 1]

\* The end of the non-stream catch block.
NonStreamCatchReply(rs, e) == SendJson(rs, CaughtStatus(e), ErrorPayload(e))


\* ----------------------------------------------------------- environment
\* The request and its API key. restrictedModels and model are model names.
Request(stream, permissions, enableModelRestriction, restrictedModels, malformed, rateLimitInfo) ==
  [active |-> TRUE, stream |-> stream, permissions |-> permissions,
   enableModelRestriction |-> enableModelRestriction,
   restrictedModels |-> restrictedModels, model |-> "m1", malformed |-> malformed,
   rateLimitInfo |-> rateLimitInfo]

\* A well-formed request of a key with no restriction.
PlainRequest(stream) == Request(stream, "all", FALSE, {}, FALSE, TRUE)

NoRequest == [PlainRequest(FALSE) EXCEPT !.active = FALSE]

AllRequests ==
  { Request(s, p, e, m, bad, rl) :
      s \in BOOLEAN, p \in {"", "all", "openai", "claude"}, e \in BOOLEAN,
      m \in {{}, {"m1"}, {"m2"}}, bad \in BOOLEAN, rl \in BOOLEAN }

\* What selectAccountForApiKey answers: it throws (ok = FALSE), or returns an
\* account of some type whose accountData is missing ("none"), has the redacted key
\* '***', has no apiKey ("nokey"), or is usable.
SelectOutcome(ok, type, data) == [ok |-> ok, type |-> type, data |-> data]

\* The collaborators and sendToOpenAI succeed.
Healthy(w) == w \in {"healthy", "tools", "usage", "tail", "stream"}

SelectOutcomes(w) ==
  IF Healthy(w) THEN {SelectOutcome(TRUE, "openai", "valid")}
  ELSE IF w \in {"account", "shared"}
  THEN {SelectOutcome(TRUE, "openai", "valid"), SelectOutcome(TRUE, "openai", "redacted")}
  ELSE {SelectOutcome(FALSE, "openai", "none")}
       \cup {SelectOutcome(TRUE, t, d) :
               t \in {"openai", "openai-responses", "other"},
               d \in {"valid", "none", "redacted", "nokey"}}

\* What getAccount answers; "throws" leaves accountData null.
RefetchOutcomes(w) ==
  IF w = "any" THEN {"valid", "none", "redacted", "nokey", "throws"} ELSE {"valid"}

\* What sendToOpenAI does for a stream request: it returns the stream (ok), or
\* throws: status >= 400 with the body read from the stream, or a transport error.
StreamOutcomes(w) ==
  IF Healthy(w) THEN {[ok |-> TRUE, error |-> NoError]}
  ELSE IF w = "shared" THEN {[ok |-> TRUE, error |-> NoError],
                             [ok |-> FALSE, error |-> Thrown(429, NoBody)]}
  ELSE {[ok |-> TRUE, error |-> NoError]}
       \cup {[ok |-> FALSE, error |-> Thrown(st, b)] : st \in {401, 429, 500}, b \in ErrorBodies}
       \cup {[ok |-> FALSE, error |-> NoError]}

\* What sendToOpenAI does for a non-stream request: validateStatus accepts every
\* status, so an upstream answer of any status is returned, { statusCode, body };
\* only a transport error is thrown. json: the body parses; isNull: it parses to
\* null; choices: its choices list is "missing", "empty", or has "one" choice;
\* usage: it has a usage object; errTyped: it has error.type.
Answer(thrown, statusCode, json, isNull, choices, usage, errTyped) ==
  [thrown |-> thrown, statusCode |-> statusCode, json |-> json, isNull |-> isNull,
   choices |-> choices, usage |-> usage, errTyped |-> errTyped]

NonStreamOutcomes(w) ==
  IF Healthy(w) \/ w = "shared" THEN {Answer(FALSE, 200, TRUE, FALSE, "one", TRUE, FALSE)}
  ELSE { Answer(TRUE, 0, FALSE, FALSE, "missing", FALSE, FALSE),
         Answer(FALSE, 200, TRUE, FALSE, "one", TRUE, FALSE),
         Answer(FALSE, 200, TRUE, FALSE, "one", FALSE, FALSE),
         Answer(FALSE, 200, TRUE, FALSE, "missing", TRUE, FALSE),
         Answer(FALSE, 200, TRUE, FALSE, "empty", TRUE, FALSE),
         Answer(FALSE, 200, TRUE, TRUE, "missing", FALSE, FALSE),
         Answer(FALSE, 200, FALSE, FALSE, "missing", FALSE, FALSE),
         Answer(FALSE, 429, TRUE, FALSE, "missing", FALSE, TRUE),
         Answer(FALSE, 429, TRUE, FALSE, "missing", FALSE, FALSE),
         Answer(FALSE, 429, FALSE, FALSE, "missing", FALSE, FALSE),
         Answer(FALSE, 500, TRUE, FALSE, "missing", FALSE, TRUE),
         Answer(FALSE, 429, TRUE, TRUE, "missing", FALSE, FALSE),
         Answer(FALSE, 500, FALSE, FALSE, "missing", FALSE, FALSE) }

\* The calls a request has made: counts per collaborator; markArg is the reset time
\* passed to markAccountRateLimited, usageArg the usage passed to recordUsageWithDetails,
\* convert the calls of convertRequest, selection what selectAccountForApiKey answered,
\* key the accountData passed to sendToOpenAI, answer what sendToOpenAI(.., false)
\* did, limited the answer of isAccountRateLimited, log the order in which the
\* response's end and the side effects of a completion were started.
NoCalls == [mark |-> 0, markArg |-> -1, isLimited |-> 0, remove |-> 0, usage |-> 0,
            usageArg |-> [input |-> 0, output |-> 0], counters |-> 0, convert |-> 0, select |-> 0, refetch |-> 0, send |-> 0, key |-> "none",
            selection |-> SelectOutcome(FALSE, "none", "none"),
            answer |-> Answer(FALSE, 0, FALSE, FALSE, "missing", FALSE, FALSE),
            limited |-> "none", log |-> <<>>]

\* The account's rate-limit flag: limited is what isAccountRateLimited reads,
\* inflight the requests that had been sent upstream and were not finished when
\* markAccountRateLimited last set it.
NoRateLimit == [limited |-> FALSE, inflight |-> {}]

\* What isAccountRateLimited answers: the flag when the requests are the only users of
\* the account; otherwise anything, other users setting and clearing the flag, or a
\* failure.
LimitedAnswers(w, flag) ==
  IF w = "shared" THEN {IF flag.limited THEN "true" ELSE "false"}
  ELSE {"true", "false", "throws"}

Log(cs, r, what) == [cs EXCEPT ![r].log = @ \o what]

\* The lines the upstream sends: any line, or, from an upstream that keeps to the
\* protocol, role, content, reasoning_content, a tool call, finish_reason, [DONE];
\* or, in a session of tool calls, the tool_calls deltas; or, in a session of usage
\* chunks, role, finish_reason with and without usage, usage with and without choices.
LinesSent(w) ==
  IF w = "healthy" THEN {1, 2, 3, 4, 7, 8}
  ELSE IF w = "tools" THEN {4, 5, 6, 14, 15}
  ELSE IF w = "usage" THEN {1, 7, 11, 16, 17, 18}
  ELSE IF w = "tail" THEN {1, 2, 7, 17, 18}
  ELSE IF w = "shared" THEN {1}
  ELSE IF w = "stream" THEN {1, 2, 3, 4, 5, 7, 8, 9, 10}
  ELSE 1..12

\* What the upstream sends after a line: a blank line; an upstream whose body may end
\* early sends, after its last line, a blank line, a single newline, or nothing.
Terminators(w) == IF w = "tail" THEN {<<NL, NL>>, <<NL>>, <<>>} ELSE {<<NL, NL>>}

\* The bytes end with a blank line: a further line would be a frame of its own.
Terminated(bytes) ==
  bytes = <<>> \/ (Len(bytes) >= 2 /\ bytes[Len(bytes)] = NL /\ bytes[Len(bytes) - 1] = NL)

\* ------------------------------------------------------ convertRequest
\* A content block of a Claude message; id stands for what the block carries: the
\* tool_use_id of a tool_result, the id of a tool_use, the text, the image source.
Block(type, id) == [type |-> type, id |-> id]

\* A Claude message: its content is a string (isString) or the array blocks.
Message(role, isString, blocks) == [role |-> role, isString |-> isString, blocks |-> blocks]

\* tool_choice: type, and disable_parallel_tool_use ("absent", "true", "false").
ToolChoice(type, disable) == [type |-> type, disable |-> disable]

NoToolChoice == ToolChoice("absent", "absent")

\* A request body. stream: "absent", "true", "false"; max_tokens: 0 is absent (or 0);
\* system: "absent" (or ''), "string", "array" (with a text part), "array_empty" (no
\* text in it); tools: "absent", "array".
ClaudeRequest(model, stream, max_tokens, system, messages, tools, tool_choice) ==
  [model |-> model, stream |-> stream, max_tokens |-> max_tokens, system |-> system,
   messages |-> messages, tools |-> tools, tool_choice |-> tool_choice]

\* An OpenAI message. content: "string", "parts" (the array parts), "null", "empty"
\* (''); tool_calls: <<>> is undefined; tool_call_id: 0 is absent.
OpenaiMessage(role, content, parts, tool_calls, tool_call_id) ==
  [role |-> role, content |-> content, parts |-> parts, tool_calls |-> tool_calls,
   tool_call_id |-> tool_call_id]

\* The request convertRequest returns. max_completion_tokens: -1 is unset;
\* tools, tool_choice, parallel_tool_calls: "unset" when the key is not there.
OpenaiRequest(model, messages, stream, max_completion_tokens, tools, tool_choice, parallel) ==
  [model |-> model, messages |-> messages, stream |-> stream,
   max_completion_tokens |-> max_completion_tokens, tools |-> tools,
   tool_choice |-> tool_choice, parallel_tool_calls |-> parallel]

\* No call of convertRequest has returned.
NotConverted == OpenaiRequest("none", <<>>, FALSE, -1, "unset", "unset", "unset")

\* The blocks of these types, in order.
BlocksOf(blocks, types) == SelectSeq(blocks, LAMBDA b : b.type \in types)

\* The content part pushed for a text or an image block.
ContentPart(b) == Block(IF b.type = "image" THEN "image_url" ELSE "text", b.id)

\* toolResults.push({ role: 'tool', tool_call_id: contentBlock.tool_use_id, content })
ToolMessage(b) == OpenaiMessage("tool", "string", <<>>, <<>>, b.id)

\* A slip in the conversion of a message with tool results: its text is kept, as
\* one more message.
ConvertMessageContentKeepsText(msg) ==
  LET toolResults == BlocksOf(msg.blocks, {"tool_result"})
      textParts == BlocksOf(msg.blocks, {"text"})
  IN IF msg.isString THEN <<OpenaiMessage(msg.role, "string", <<>>, <<>>, 0)>>
     ELSE [i \in 1..Len(toolResults) |-> ToolMessage(toolResults[i])]
            \o <<OpenaiMessage(msg.role, "parts", textParts, <<>>, 0)>>

\* _convertMessageContent: the messages _convertMessages pushes for msg (the array
\* of tool messages spread, or the one message returned).
ConvertMessageContent(msg) ==
  LET textParts == BlocksOf(msg.blocks, {"text"})
      imageParts == BlocksOf(msg.blocks, {"text", "image"})
      contentParts == [i \in 1..Len(imageParts) |-> ContentPart(imageParts[i])]
      toolCalls == BlocksOf(msg.blocks, {"tool_use"})
      toolResults == BlocksOf(msg.blocks, {"tool_result"})
  IN IF msg.isString THEN <<OpenaiMessage(msg.role, "string", <<>>, <<>>, 0)>>
     ELSE IF Len(toolResults) > 0
     THEN [i \in 1..Len(toolResults) |-> ToolMessage(toolResults[i])]
     ELSE IF msg.role = "assistant" /\ (Len(textParts) > 0 \/ Len(toolCalls) > 0)
     THEN <<OpenaiMessage("assistant", IF Len(textParts) > 0 THEN "parts" ELSE "null",
                          textParts, toolCalls, 0)>>
     ELSE IF msg.role = "user" /\ Len(contentParts) > 0
     THEN <<OpenaiMessage("user", "parts", contentParts, <<>>, 0)>>
     ELSE <<OpenaiMessage(msg.role, "empty", <<>>, <<>>, 0)>>

\* The loop of _convertMessages over claudeRequest.messages.
RECURSIVE ConvertEach(_)
ConvertEach(messages) ==
  IF messages = <<>> THEN <<>>
  ELSE ConvertMessageContent(Head(messages)) \o ConvertEach(Tail(messages))

\* _convertMessages: the system message, when system is a string or has text, then
\* the converted messages.
ConvertMessages(q) ==
  (IF q.system \in {"string", "array"}
   THEN <<OpenaiMessage("system", "string", <<>>, <<>>, 0)>> ELSE <<>>)
    \o ConvertEach(q.messages)

\* _convertToolChoice
ConvertToolChoice(toolChoice) ==
  IF toolChoice.type = "auto"
  THEN [toolChoice |-> "auto", parallelToolCalls |-> toolChoice.disable # "true"]
  ELSE IF toolChoice.type = "any"
  THEN [toolChoice |-> "required", parallelToolCalls |-> toolChoice.disable # "true"]
  ELSE IF toolChoice.type = "tool"
  THEN [toolChoice |-> "function", parallelToolCalls |-> toolChoice.disable # "true"]
  ELSE IF toolChoice.type = "none"
  THEN [toolChoice |-> "none", parallelToolCalls |-> TRUE]
  ELSE [toolChoice |-> "auto", parallelToolCalls |-> TRUE]

\* convertRequest: model, messages, stream, max_completion_tokens, tools,
\* tool_choice, parallel_tool_calls.
ConvertRequest(q) ==
  LET chosen == q.tools # "absent" /\ q.tool_choice # NoToolChoice
      c == ConvertToolChoice(q.tool_choice)
  IN OpenaiRequest(q.model, ConvertMessages(q), q.stream = "true",
                   IF q.max_tokens # 0 THEN q.max_tokens ELSE -1,
                   IF q.tools # "absent" THEN "tools" ELSE "unset",
                   IF chosen THEN c.toolChoice ELSE "unset",
                   IF chosen /\ ~c.parallelToolCalls THEN "false" ELSE "unset")

\* ------------------------------------------ request bodies for convertRequest
ToolChoices ==
  {NoToolChoice} \cup {ToolChoice(t, d) : t \in {"auto", "any", "tool", "none", "other"},
                                           d \in {"absent", "true", "false"}}

\* Bodies that differ in stream, max_tokens, system, tools and tool_choice.
ToolChoiceRequests ==
  { ClaudeRequest("claude-sonnet", s, n, y, <<Message("user", TRUE, <<>>)>>, t, c) :
      s \in {"absent", "true", "false"}, n \in {0, 1024},
      y \in {"absent", "string", "array", "array_empty"}, t \in {"absent", "array"},
      c \in ToolChoices }

\* The content blocks of the messages whose content has lens[i] blocks (-1: a string).
RECURSIVE Blocks(_)
Blocks(lens) ==
  IF lens = <<>> THEN 0
  ELSE (IF Head(lens) < 0 THEN 0 ELSE Head(lens)) + Blocks(Tail(lens))

\* The messages with these roles and these block types, types being the types of
\* all their blocks in order; every block carries its own id.
MessagesOf(roles, lens, types) ==
  [i \in 1..Len(lens) |->
     Message(roles[i], lens[i] < 0,
             IF lens[i] < 0 THEN <<>>
             ELSE [j \in 1..lens[i] |->
                     Block(types[Blocks(SubSeq(lens, 1, i - 1)) + j], 10 * i + j)])]

\* The lists of k messages that have lens[i] content blocks.
MessageLists(k, lens) ==
  { MessagesOf(roles, lens, types) :
      roles \in [1..k -> {"user", "assistant"}],
      types \in [1..Blocks(lens) -> {"text", "image", "tool_use", "tool_result"}] }

\* A body with a system prompt or none, and these messages.
MessageRequest(system, messages) ==
  ClaudeRequest("claude-sonnet", "absent", 0, IF system THEN "string" ELSE "absent",
                messages, "absent", NoToolChoice)

\* ----------------------------------------------------- convertResponse
\* An entry of message.tool_calls: type, id, and whether function.arguments is
\* JSON text ("json") or not ("text").
ResponseToolCall(type, id, arguments) == [type |-> type, id |-> id, arguments |-> arguments]

\* A parsed upstream response. choices: "missing", "empty", "one" (choices[0] is
\* there); content: "null" (or undefined), "empty" (''), "text"; reasoning:
\* "absent", "empty", "text"; finish_reason: the upstream's word; usage: whether
\* the usage object is there, with prompt_tokens and completion_tokens.
Response(choices, content, reasoning, tool_calls, finish_reason, usage, prompt, completion) ==
  [choices |-> choices, content |-> content, reasoning |-> reasoning,
   tool_calls |-> tool_calls, finish_reason |-> finish_reason, usage |-> usage,
   prompt |-> prompt, completion |-> completion]

\* No response is at hand.
NoUpstreamResponse == Response("none", "null", "absent", <<>>, "none", FALSE, 0, 0)

\* A content block of the Claude response: text, thinking, or tool_use with the
\* tool call's id and its input ("parsed": the JSON value, "raw": the string).
ResponseBlock(type, id, input) == [type |-> type, id |-> id, input |-> input]

\* What convertResponse gave: thrown, or the message with its content, stop_reason
\* and usage.
ClaudeResponse(thrown, content, stop_reason, input_tokens, output_tokens) ==
  [thrown |-> thrown, content |-> content, stop_reason |-> stop_reason,
   input_tokens |-> input_tokens, output_tokens |-> output_tokens]

\* convertResponse has not been called.
NotResponded == ClaudeResponse(FALSE, <<>>, "none", 0, 0)

\* throw new Error('Invalid OpenAI response: "choices" array is empty or missing.')
InvalidResponse == ClaudeResponse(TRUE, <<>>, "none", 0, 0)

\* _mapStopReason
MapStopReason(openaiReason) ==
  IF openaiReason = "stop" THEN "end_turn"
  ELSE IF openaiReason = "length" THEN "max_tokens"
  ELSE IF openaiReason \in {"tool_calls", "function_call"} THEN "tool_use"
  ELSE IF openaiReason = "content_filter" THEN "refusal"
  ELSE "end_turn"

\* if (toolCall.type === 'function') content.push({ type: 'tool_use', ... })
RECURSIVE ToolUseBlocks(_)
ToolUseBlocks(tool_calls) ==
  IF tool_calls = <<>> THEN <<>>
  ELSE (IF Head(tool_calls).type = "function"
        THEN <<ResponseBlock("tool_use", Head(tool_calls).id,
                             IF Head(tool_calls).arguments = "json" THEN "parsed" ELSE "raw")>>
        ELSE <<>>) \o ToolUseBlocks(Tail(tool_calls))

\* A slip in the order of the content: the thinking block is pushed before the text.
ConvertResponseThinkingFirst(a) ==
  IF a.choices # "one" THEN InvalidResponse
  ELSE ClaudeResponse(FALSE,
         (IF a.reasoning = "text" THEN <<ResponseBlock("thinking", 0, "none")>> ELSE <<>>)
           \o (IF a.content # "null" THEN <<ResponseBlock("text", 0, "none")>> ELSE <<>>)
           \o ToolUseBlocks(a.tool_calls),
         MapStopReason(a.finish_reason),
         IF a.usage THEN a.prompt ELSE 0, IF a.usage THEN a.completion ELSE 0)

\* A slip at the head of convertResponse: a response without a choice is converted
\* to a message without content.
ConvertResponseNoCheck(a) ==
  IF a.choices # "one" THEN ClaudeResponse(FALSE, <<>>, "end_turn", 0, 0)
  ELSE ClaudeResponse(FALSE,
         (IF a.content # "null" THEN <<ResponseBlock("text", 0, "none")>> ELSE <<>>)
           \o (IF a.reasoning = "text" THEN <<ResponseBlock("thinking", 0, "none")>> ELSE <<>>)
           \o ToolUseBlocks(a.tool_calls),
         MapStopReason(a.finish_reason),
         IF a.usage THEN a.prompt ELSE 0, IF a.usage THEN a.completion ELSE 0)

\* convertResponse
ConvertResponse(a) ==
  IF a.choices # "one" THEN InvalidResponse
  ELSE ClaudeResponse(FALSE,
         (IF a.content # "null" THEN <<ResponseBlock("text", 0, "none")>> ELSE <<>>)
           \o (IF a.reasoning = "text" THEN <<ResponseBlock("thinking", 0, "none")>> ELSE <<>>)
           \o ToolUseBlocks(a.tool_calls),
         MapStopReason(a.finish_reason),
         IF a.usage THEN a.prompt ELSE 0, IF a.usage THEN a.completion ELSE 0)

\* The lists of n tool_calls entries; every entry has its own id.
ToolCallLists(n) ==
  { [i \in 1..n |-> ResponseToolCall(types[i], 100 + i, arguments[i])] :
      types \in [1..n -> {"function", "custom"}], arguments \in [1..n -> {"json", "text"}] }

FinishReasons == {"stop", "length", "tool_calls", "function_call", "content_filter", "other"}

\* ------------------------------------------------------------------- Init
\* The body of a plain request.
BodyOf(stream) ==
  ClaudeRequest("claude-sonnet", IF stream THEN "true" ELSE "false", 0, "absent",
                <<Message("user", TRUE, <<>>)>>, "absent", NoToolChoice)

InitWith(reqs, frames, w, q, a) ==
  /\ req = reqs
  /\ pc = [r \in Requests |-> IF reqs[r].active THEN "start" ELSE "idle"]
  /\ acct = [r \in Requests |-> "none"]
  /\ wire = [r \in Requests |-> <<>>]
  /\ buffer = [r \in Requests |-> <<>>]
  /\ totals = [r \in Requests |-> [input |-> 0, output |-> 0]]
  /\ streamStates = [k \in {} |-> NewStreamState]
  /\ written = [r \in Requests |-> <<>>]
  /\ res = [r \in Requests |-> NoResponse]
  /\ up = [r \in Requests |-> "none"]
  /\ err = [r \in Requests |-> NoError]
  /\ calls = [r \in Requests |-> NoCalls]
  /\ fed = [r \in Requests |-> <<>>]
  /\ remaining = frames
  /\ answered = [r \in Requests |-> 0]
  /\ delivered = [r \in Requests |-> <<>>]
  /\ world = w
  /\ rateLimit = NoRateLimit
  /\ claudeRequest = q
  /\ openaiRequest = NotConverted
  /\ openaiResponse = a
  /\ claudeResponse = NotResponded

\* One request, stream or not, of an unrestricted key for which an account is found.
Init ==
  \E s \in BOOLEAN :
    InitWith([r \in Requests |-> IF r = "r1" THEN PlainRequest(s) ELSE NoRequest],
             MaxFrames, "account", BodyOf(s), NoUpstreamResponse)

\* Two stream requests at once, a usable account, an upstream that answers.
InitTwo ==
  InitWith([r \in Requests |-> PlainRequest(TRUE)], MaxFramesTwo, "healthy", BodyOf(TRUE),
           NoUpstreamResponse)

\* One request of any kind.
InitDispatch ==
  \E q \in AllRequests :
    InitWith([r \in Requests |-> IF r = "r1" THEN q ELSE NoRequest],
             MaxFramesDispatch, "any", BodyOf(q.stream), NoUpstreamResponse)

\* One stream request whose upstream sends tool_calls deltas.
InitTools ==
  InitWith([r \in Requests |-> IF r = "r1" THEN PlainRequest(TRUE) ELSE NoRequest],
           MaxFramesTools, "tools", BodyOf(TRUE), NoUpstreamResponse)

\* One stream request whose upstream sends usage chunks.
InitUsage ==
  InitWith([r \in Requests |-> IF r = "r1" THEN PlainRequest(TRUE) ELSE NoRequest],
           MaxFramesUsage, "usage", BodyOf(TRUE), NoUpstreamResponse)

\* One stream request whose upstream may end its body without a last blank line.
InitTail ==
  InitWith([r \in Requests |-> IF r = "r1" THEN PlainRequest(TRUE) ELSE NoRequest],
           MaxFramesTail, "tail", BodyOf(TRUE), NoUpstreamResponse)

\* Two requests, stream or not, that are the only users of one upstream account.
InitShared ==
  \E s1, s2 \in BOOLEAN :
    InitWith([r \in Requests |-> PlainRequest(IF r = "r1" THEN s1 ELSE s2)],
             MaxFramesShared, "shared", BodyOf(s1), NoUpstreamResponse)

\* One stream request whose upstream sends deltas of every kind and lines that are
\* not JSON.
InitStream ==
  InitWith([r \in Requests |-> IF r = "r1" THEN PlainRequest(TRUE) ELSE NoRequest],
           MaxFramesStream, "stream", BodyOf(TRUE), NoUpstreamResponse)

\* No request is handled; convertRequest is given a request body.
InitConvert ==
  \/ \E q \in ToolChoiceRequests :
       InitWith([r \in Requests |-> NoRequest], 0, "healthy", q, NoUpstreamResponse)
  \/ \E k \in 1..MaxMessages, system \in BOOLEAN :
       \E lens \in {l \in [1..k -> -1..MaxBlocks] : Blocks(l) <= MaxBlocks} :
         \E m \in MessageLists(k, lens) :
           InitWith([r \in Requests |-> NoRequest], 0, "healthy", MessageRequest(system, m),
                    NoUpstreamResponse)

\* No request is handled; convertResponse is given a parsed upstream response.
InitResponse ==
  \E choices \in {"missing", "empty", "one"}, content \in {"null", "empty", "text"},
     reasoning \in {"absent", "empty", "text"}, finish_reason \in FinishReasons,
     usage \in BOOLEAN, n \in 0..MaxToolCalls :
    \E tool_calls \in ToolCallLists(n) :
      InitWith([r \in Requests |-> NoRequest], 0, "healthy", BodyOf(FALSE),
               Response(choices, content, reasoning, tool_calls, finish_reason, usage, 3, 5))

\* ------------------------------------------------- handleMessagesRequest
\* A slip in the permission check: every key passes.
CheckPermissionsAny(apiKeyData) == apiKeyData.permissions = apiKeyData.permissions

CheckPermissions(apiKeyData) ==
  LET permissions == IF apiKeyData.permissions = "" THEN "all" ELSE apiKeyData.permissions
  IN permissions = "all" \/ permissions = "openai"

\* A slip in the model restriction: a listed model is the one denied.
ModelDeniedListed(q) ==
  /\ q.enableModelRestriction
  /\ Cardinality(q.restrictedModels) > 0
  /\ q.model \in q.restrictedModels

ModelDenied(q) ==
  /\ q.enableModelRestriction
  /\ Cardinality(q.restrictedModels) > 0
  /\ q.model \notin q.restrictedModels

\* The handler of r returns after sending this response.
Return(r, rs) ==
  /\ res' = [res EXCEPT ![r] = rs]
  /\ pc' = [pc EXCEPT ![r] = "done"]

\* Up to the first await: permission check, convertRequest (which throws on a
\* malformed body, into the outer catch), model restriction.
Start(r) ==
  /\ pc[r] = "start"
  /\ IF ~CheckPermissions(req[r])
     THEN /\ Return(r, SendJson(res[r], 403, Envelope("permission_error")))
          /\ UNCHANGED calls
     ELSE IF req[r].malformed
     THEN /\ Return(r, SendJson(res[r], 500, Envelope("api_error")))
          /\ calls' = [calls EXCEPT ![r].convert = @ + 1]
     ELSE IF ModelDenied(req[r])
     THEN /\ Return(r, SendJson(res[r], 403, Envelope("invalid_request_error")))
          /\ calls' = [calls EXCEPT ![r].convert = @ + 1]
     ELSE /\ pc' = [pc EXCEPT ![r] = "select"]
          /\ calls' = [calls EXCEPT ![r].convert = @ + 1, ![r].select = @ + 1]
          /\ UNCHANGED res
  /\ UNCHANGED <<req, acct, wire, buffer, totals, streamStates, written, up, err, fed,
                 remaining, answered, delivered, world, rateLimit, conv>>

\* A slip in the check of accountData: the redacted key is let through.
ValidateAcceptsRedacted(r, data, cs) ==
  IF data \notin {"valid", "redacted"}
  THEN /\ Return(r, SendJson(res[r], 503, Envelope("configuration_error")))
       /\ acct' = [acct EXCEPT ![r] = data]
       /\ calls' = cs
  ELSE /\ pc' = [pc EXCEPT ![r] = IF req[r].stream THEN "sendStream" ELSE "sendJson"]
       /\ acct' = [acct EXCEPT ![r] = data]
       /\ calls' = [cs EXCEPT ![r].send = @ + 1, ![r].key = data]
       /\ UNCHANGED res

\* The check of accountData before the dispatch, then the call of sendToOpenAI.
Validate(r, data, cs) ==
  IF data # "valid"
  THEN /\ Return(r, SendJson(res[r], 503, Envelope("configuration_error")))
       /\ acct' = [acct EXCEPT ![r] = data]
       /\ calls' = cs
  ELSE /\ pc' = [pc EXCEPT ![r] = IF req[r].stream THEN "sendStream" ELSE "sendJson"]
       /\ acct' = [acct EXCEPT ![r] = data]
       /\ calls' = [cs EXCEPT ![r].send = @ + 1, ![r].key = data]
       /\ UNCHANGED res

\* selectAccountForApiKey has answered.
Select(r) ==
  /\ pc[r] = "select"
  /\ \E o \in SelectOutcomes(world) :
       IF ~o.ok
       THEN /\ Return(r, SendJson(res[r], 503, Envelope("overloaded_error")))
            /\ calls' = [calls EXCEPT ![r].selection = o]
            /\ UNCHANGED acct
       ELSE IF o.data \in {"none", "redacted"} /\ o.type \in {"openai", "openai-responses"}
       THEN /\ pc' = [pc EXCEPT ![r] = "refetch"]
            /\ acct' = [acct EXCEPT ![r] = o.data]
            /\ calls' = [calls EXCEPT ![r].selection = o, ![r].refetch = @ + 1]
            /\ UNCHANGED res
       ELSE Validate(r, o.data, [calls EXCEPT ![r].selection = o])
  /\ UNCHANGED <<req, wire, buffer, totals, streamStates, written, up, err, fed,
                 remaining, answered, delivered, world, rateLimit, conv>>

\* getAccount has answered (or thrown: accountData = null).
Refetch(r) ==
  /\ pc[r] = "refetch"
  /\ \E o \in RefetchOutcomes(world) : Validate(r, IF o = "throws" THEN "none" ELSE o, calls)
  /\ UNCHANGED <<req, wire, buffer, totals, streamStates, written, up, err, fed,
                 remaining, answered, delivered, world, rateLimit, conv>>

\* The stream catch block up to its await: on 429 markAccountRateLimited is called
\* with the reset time, else the reply is sent.
StreamCatch(r, e) ==
  IF CaughtStatus(e) = 429
  THEN /\ pc' = [pc EXCEPT ![r] = "mark"]
       /\ err' = [err EXCEPT ![r] = e]
       /\ calls' = [calls EXCEPT ![r].mark = @ + 1, ![r].markArg = ResetsInSeconds(e)]
       /\ UNCHANGED res
  ELSE /\ Return(r, StreamCatchReply(res[r], e))
       /\ UNCHANGED <<err, calls>>

\* The non-stream catch block up to its await.
NonStreamCatch(r, e, cs) ==
  IF CaughtStatus(e) = 429
  THEN /\ pc' = [pc EXCEPT ![r] = "mark"]
       /\ err' = [err EXCEPT ![r] = e]
       /\ calls' = [cs EXCEPT ![r].mark = @ + 1, ![r].markArg = ResetsInSeconds(e)]
       /\ UNCHANGED res
  ELSE /\ Return(r, NonStreamCatchReply(res[r], e))
       /\ calls' = cs
       /\ UNCHANGED err

\* sendToOpenAI(openaiRequest, accountData, true) has returned or thrown.
SendStream(r) ==
  /\ pc[r] = "sendStream"
  /\ \E o \in StreamOutcomes(world) :
       IF o.ok
       THEN /\ pc' = [pc EXCEPT ![r] = "streaming"]
            /\ up' = [up EXCEPT ![r] = "open"]
            /\ answered' = [answered EXCEPT ![r] = 200]
            /\ UNCHANGED <<res, err, calls>>
       ELSE /\ StreamCatch(r, o.error)
            /\ answered' = [answered EXCEPT ![r] = o.error.status]
            /\ UNCHANGED up
  /\ UNCHANGED <<req, acct, wire, buffer, totals, streamStates, written, fed, remaining,
                 delivered, world, rateLimit, conv>>

\* The requests other than r that have been sent upstream and are not finished.
InFlight(r) ==
  {q \in Requests \ {r} : calls[q].send > 0 /\ pc[q] \notin {"idle", "done"}}

\* markAccountRateLimited has returned, the flag set, or thrown: the catch block
\* sends its reply.
Mark(r) ==
  /\ pc[r] = "mark"
  /\ Return(r, IF req[r].stream THEN StreamCatchReply(res[r], err[r])
               ELSE NonStreamCatchReply(res[r], err[r]))
  /\ \E ok \in BOOLEAN :
       rateLimit' = IF ok THEN [limited |-> TRUE, inflight |-> InFlight(r)] ELSE rateLimit
  /\ UNCHANGED <<req, acct, wire, buffer, totals, streamStates, written, up, err, calls,
                 fed, remaining, answered, delivered, world, conv>>

\* recordUsageWithDetails and queueRateLimitUpdate, both fire-and-forget.
RecordUsage(cs, r, usage) ==
  [cs EXCEPT ![r].usage = @ + 1,
             ![r].usageArg = usage,
             ![r].counters = IF req[r].rateLimitInfo THEN @ + 1 ELSE @,
             ![r].log = @ \o (IF req[r].rateLimitInfo THEN <<"usage", "counters">>
                              ELSE <<"usage">>)]

\* unifiedOpenAIScheduler.isAccountRateLimited(accountId) is called.
AskLimited(cs, r) == [cs EXCEPT ![r].isLimited = @ + 1, ![r].log = Append(@, "isLimited")]

\* A slip after isAccountRateLimited: the flag is removed whatever it answered.
AnsweredRemoves(cs, r, a) ==
  [cs EXCEPT ![r].limited = a, ![r].remove = @ + 1, ![r].log = Append(@, "remove")]

\* isAccountRateLimited has answered a ("true", "false", "throws");
\* removeAccountRateLimit is called when it answered true.
Answered(cs, r, a) ==
  [cs EXCEPT ![r].limited = a,
             ![r].remove = IF a = "true" THEN @ + 1 ELSE @,
             ![r].log = IF a = "true" THEN Append(@, "remove") ELSE @]

\* openaiData = JSON.parse(openaiResponse.body), for a body that is an object.
OpenaiData(o) ==
  Response(o.choices, "text", "absent", <<>>, "stop", o.usage, 3, 5)

\* sendToOpenAI(openaiRequest, accountData, false) has returned or thrown; the
\* handler runs to its reply or to the await of isAccountRateLimited. A body that
\* parses to null makes openaiData.error (status >= 400) or convertResponse throw
\* a TypeError into the catch block.
SendNonStream(r) ==
  /\ pc[r] = "sendJson"
  /\ \E o \in NonStreamOutcomes(world) :
       /\ answered' = [answered EXCEPT ![r] = o.statusCode]
       /\ LET cs == [calls EXCEPT ![r].answer = o]
          IN IF o.thrown
             THEN NonStreamCatch(r, NoError, cs)
             ELSE IF ~o.json
             THEN /\ Return(r, SendJson(res[r], 502, Envelope("api_error")))
                  /\ calls' = cs
                  /\ UNCHANGED err
             ELSE IF o.statusCode >= 400 /\ o.isNull
             THEN NonStreamCatch(r, NoError, cs)
             ELSE IF o.statusCode >= 400
             THEN /\ Return(r, SendJson(res[r], o.statusCode,
                                        Envelope(IF o.errTyped THEN "upstream" ELSE "api_error")))
                  /\ calls' = cs
                  /\ UNCHANGED err
             ELSE IF o.isNull \/ ConvertResponse(OpenaiData(o)).thrown
             THEN NonStreamCatch(r, NoError, cs)
             ELSE /\ pc' = [pc EXCEPT ![r] = "checkrl"]
                  /\ calls' = AskLimited(IF o.usage
                                       THEN RecordUsage(cs, r, [input |-> OpenaiData(o).prompt,
                                                                output |-> OpenaiData(o).completion])
                                       ELSE cs, r)
                  /\ UNCHANGED <<res, err>>
  /\ UNCHANGED <<req, acct, wire, buffer, totals, streamStates, written, up, fed,
                 remaining, delivered, world, rateLimit, conv>>

\* res.json(claudeResponse)
SendMessage(rs) == SendJson(rs, 200, Body("message", "absent", FALSE))

\* isAccountRateLimited has answered a non-stream request.
NonStreamCheck(r) ==
  /\ pc[r] = "checkrl"
  /\ \E a \in LimitedAnswers(world, rateLimit) :
       IF a = "throws" THEN NonStreamCatch(r, NoError, Answered(calls, r, a))
       ELSE IF a = "true"
       THEN /\ pc' = [pc EXCEPT ![r] = "removerl"]
            /\ calls' = Answered(calls, r, a)
            /\ UNCHANGED <<res, err>>
       ELSE /\ Return(r, SendMessage(res[r]))
            /\ calls' = Answered(calls, r, a)
            /\ UNCHANGED err
  /\ UNCHANGED <<req, acct, wire, buffer, totals, streamStates, written, up, fed,
                 remaining, answered, delivered, world, rateLimit, conv>>

\* removeAccountRateLimit has returned, the flag cleared, or thrown for a non-stream
\* request.
NonStreamRemove(r) ==
  /\ pc[r] = "removerl"
  /\ \E ok \in BOOLEAN :
       IF ok
       THEN /\ Return(r, SendMessage(res[r]))
            /\ rateLimit' = NoRateLimit
            /\ UNCHANGED <<err, calls>>
       ELSE /\ NonStreamCatch(r, NoError, calls)
            /\ UNCHANGED rateLimit
  /\ UNCHANGED <<req, acct, wire, buffer, totals, streamStates, written, up, fed,
                 remaining, answered, delivered, world, conv>>

\* ------------------------------------------------------ the stream handlers
\* The upstream produces its next line and what follows it; a line not followed by a
\* blank line is the last one.
UpstreamSend(r) ==
  /\ pc[r] = "streaming"
  /\ up[r] = "open"
  /\ remaining > 0
  /\ Len(wire[r]) + 3 <= MaxWire
  /\ Terminated(delivered[r] \o wire[r])
  /\ \E l \in LinesSent(world), t \in Terminators(world) :
       wire' = [wire EXCEPT ![r] = @ \o Bytes(l) \o t]
  /\ remaining' = remaining - 1
  /\ UNCHANGED <<pc, req, acct, buffer, totals, streamStates, written, res, up, err,
                 calls, fed, answered, delivered, world, rateLimit, conv>>

\* openaiStream.on('data'): a chunk of the pending bytes arrives.
OnData(r) ==
  /\ pc[r] = "streaming"
  /\ up[r] = "open"
  /\ \E k \in 1..Len(wire[r]) :
       LET bytes == buffer[r] \o Decode(SubSeq(wire[r], 1, k))
           d == DataFrames([map |-> streamStates, totals |-> totals[r],
                            written |-> <<>>, frames |-> <<>>],
                           CompleteFrames(bytes), SessionId(r))
       IN /\ wire' = [wire EXCEPT ![r] = SubSeq(@, k + 1, Len(@))]
          /\ buffer' = [buffer EXCEPT ![r] = TailBuffer(bytes)]
          /\ streamStates' = d.map
          /\ totals' = [totals EXCEPT ![r] = d.totals]
          /\ written' = [written EXCEPT ![r] = @ \o d.written]
          /\ res' = [res EXCEPT ![r].headersSent = @ \/ d.written # <<>>]
          /\ fed' = [fed EXCEPT ![r] = @ \o d.frames]
          /\ delivered' = [delivered EXCEPT ![r] = @ \o SubSeq(wire[r], 1, k)]
  /\ UNCHANGED <<pc, req, acct, up, err, calls, remaining, answered, world, rateLimit, conv>>

\* A slip in the 'end' handler: isAccountRateLimited is called before the response
\* is ended.
OnEndAsksFirst(r) ==
  /\ pc[r] = "streaming"
  /\ up[r] = "open"
  /\ wire[r] = <<>>
  /\ up' = [up EXCEPT ![r] = "ended"]
  /\ written' = [written EXCEPT ![r] = Append(@, Ev("message_stop", -1, "message", 0))]
  /\ res' = [res EXCEPT ![r].headersSent = TRUE, ![r].ended = TRUE, ![r].ends = @ + 1]
  /\ calls' = Log(AskLimited(calls, r), r, <<"message_stop", "end">>)
  /\ pc' = [pc EXCEPT ![r] = "endcheck"]
  /\ UNCHANGED <<req, acct, wire, buffer, totals, streamStates, fed, err, remaining,
                 answered, delivered, world, rateLimit, conv>>

\* openaiStream.on('end'): message_stop is written, the response ended, the usage
\* recorded when a total is positive, isAccountRateLimited called.
OnEnd(r) ==
  /\ pc[r] = "streaming"
  /\ up[r] = "open"
  /\ wire[r] = <<>>
  /\ up' = [up EXCEPT ![r] = "ended"]
  /\ written' = [written EXCEPT ![r] = Append(@, Ev("message_stop", -1, "message", 0))]
  /\ res' = [res EXCEPT ![r].headersSent = TRUE, ![r].ended = TRUE, ![r].ends = @ + 1]
  /\ calls' = LET ended == Log(calls, r, <<"message_stop", "end">>)
              IN AskLimited(IF totals[r].input > 0 \/ totals[r].output > 0
                            THEN RecordUsage(ended, r, totals[r]) ELSE ended, r)
  /\ pc' = [pc EXCEPT ![r] = "endcheck"]
  /\ UNCHANGED <<req, acct, wire, buffer, totals, streamStates, fed, err, remaining,
                 answered, delivered, world, rateLimit, conv>>

\* The .then of isAccountRateLimited after 'end': removeAccountRateLimit is called
\* when it answered true and clears the flag; a failure is logged.
StreamCheck(r) ==
  /\ pc[r] = "endcheck"
  /\ \E a \in LimitedAnswers(world, rateLimit) :
       /\ calls' = Answered(calls, r, a)
       /\ rateLimit' = IF a = "true" THEN NoRateLimit ELSE rateLimit
  /\ pc' = [pc EXCEPT ![r] = "done"]
  /\ UNCHANGED <<req, acct, wire, buffer, totals, streamStates, written, res, up, err,
                 fed, remaining, answered, delivered, world, conv>>

\* A slip in the 'error' handler: it closes the stream the way 'end' does.
OnErrorWritesStop(r) ==
  /\ pc[r] = "streaming"
  /\ up[r] = "open"
  /\ up' = [up EXCEPT ![r] = "errored"]
  /\ written' = [written EXCEPT ![r] = Append(@, Ev("message_stop", -1, "message", 0))]
  /\ res' = [res EXCEPT ![r].ended = TRUE, ![r].ends = @ + 1]
  /\ wire' = [wire EXCEPT ![r] = <<>>]
  /\ pc' = [pc EXCEPT ![r] = "done"]
  /\ UNCHANGED <<req, acct, buffer, totals, streamStates, err, calls, fed, remaining,
                 answered, delivered, world, rateLimit, conv>>

\* openaiStream.on('error'): the response is ended; the bytes not delivered are lost.
OnError(r) ==
  /\ pc[r] = "streaming"
  /\ up[r] = "open"
  /\ up' = [up EXCEPT ![r] = "errored"]
  /\ res' = [res EXCEPT ![r].ended = TRUE, ![r].ends = @ + 1]
  /\ wire' = [wire EXCEPT ![r] = <<>>]
  /\ pc' = [pc EXCEPT ![r] = "done"]
  /\ UNCHANGED <<req, acct, buffer, totals, streamStates, written, err, calls, fed,
                 remaining, answered, delivered, world, rateLimit, conv>>

\* req.on('close'): the client is gone, openaiStream.destroy().
OnClose(r) ==
  /\ pc[r] = "streaming"
  /\ up[r] = "open"
  /\ up' = [up EXCEPT ![r] = "destroyed"]
  /\ wire' = [wire EXCEPT ![r] = <<>>]
  /\ pc' = [pc EXCEPT ![r] = "done"]
  /\ UNCHANGED <<req, acct, buffer, totals, streamStates, written, res, err, calls, fed,
                 remaining, answered, delivered, world, rateLimit, conv>>

\* convertRequest(claudeRequest) is called and returns.
Convert ==
  /\ openaiRequest = NotConverted
  /\ \A r \in Requests : pc[r] = "idle"
  /\ openaiRequest' = ConvertRequest(claudeRequest)
  /\ UNCHANGED <<pc, req, acct, wire, buffer, totals, streamStates, written, res, up, err,
                 calls, fed, remaining, answered, delivered, world, rateLimit,
                 claudeRequest, openaiResponse, claudeResponse>>

\* convertResponse(openaiData) is called and returns or throws.
Respond ==
  /\ openaiResponse # NoUpstreamResponse
  /\ claudeResponse = NotResponded
  /\ claudeResponse' = ConvertResponse(openaiResponse)
  /\ UNCHANGED <<pc, req, acct, wire, buffer, totals, streamStates, written, res, up, err,
                 calls, fed, remaining, answered, delivered, world, rateLimit,
                 claudeRequest, openaiRequest, openaiResponse>>

\* ------------------------------------------------------------------- Next
Dispatch(r) == Start(r) \/ Select(r) \/ SendStream(r)

Failure(r) == Refetch(r) \/ Mark(r)

NonStream(r) == SendNonStream(r) \/ NonStreamCheck(r) \/ NonStreamRemove(r)

Stream(r) ==
  UpstreamSend(r) \/ OnData(r) \/ OnEnd(r) \/ StreamCheck(r) \/ OnError(r) \/ OnClose(r)

Next == \E r \in Requests : Dispatch(r) \/ Failure(r) \/ NonStream(r) \/ Stream(r)

NextTwo == \E r \in Requests : Dispatch(r) \/ UpstreamSend(r) \/ OnData(r) \/ OnEnd(r)

Spec == Init /\ [][Next]_vars

SpecTwo == InitTwo /\ [][NextTwo]_vars

SpecDispatch == InitDispatch /\ [][Next]_vars

SpecTools == InitTools /\ [][NextTwo]_vars

SpecUsage == InitUsage /\ [][NextTwo]_vars

SpecTail == InitTail /\ [][NextTwo]_vars

SpecShared == InitShared /\ [][Next]_vars

SpecStream == InitStream /\ [][NextTwo]_vars

SpecConvert == InitConvert /\ [][Convert]_vars

SpecResponse == InitResponse /\ [][Respond]_vars

\* ================================================================ claims
Active == {r \in Requests : req[r].active}

\* The events of name ev at index i among evs.
CountEv(evs, ev, i) ==
  Cardinality({p \in 1..Len(evs) : evs[p].ev = ev /\ evs[p].index = i})

HasEv(evs, ev) == \E p \in 1..Len(evs) : evs[p].ev = ev

\* The upstream lines among the frames handed to the converter.
LinesOf(frames) ==
  UNION {{frames[i][j] : j \in 1..Len(frames[i])} : i \in 1..Len(frames)} \ {NL}

\* C1: when a message_delta is emitted, each block index has as many
\* content_block_start events as content_block_stop events before it.
C1_BlocksClosedAtMessageDelta ==
  \A r \in Active : \A p \in 1..Len(written[r]) :
    written[r][p].ev = "message_delta" =>
      \A q \in 1..p :
        CountEv(SubSeq(written[r], 1, p), "content_block_start", written[r][q].index)
          = CountEv(SubSeq(written[r], 1, p), "content_block_stop", written[r][q].index)

\* The frames of one session processed alone, from an empty Map.
Alone(r) ==
  DataFrames([map |-> [k \in {} |-> NewStreamState], totals |-> [input |-> 0, output |-> 0],
              written |-> <<>>, frames |-> <<>>],
             fed[r], SessionId(r))

\* C2: with two sessions fed in any interleaving, the events written for each
\* session, and the state kept for it, are those of its frames processed alone.
C2_SessionsIndependent ==
  \A r \in Active :
    /\ written[r] = Alone(r).written
                      \o (IF up[r] = "ended" THEN <<Ev("message_stop", -1, "message", 0)>>
                          ELSE <<>>)
    /\ (SessionId(r) \in DOMAIN streamStates) = (SessionId(r) \in DOMAIN Alone(r).map)
    /\ SessionId(r) \in DOMAIN streamStates
         => streamStates[SessionId(r)] = Alone(r).map[SessionId(r)]

\* C2's case: both sessions have a state in the Map and have written events.
C2_Witness ==
  /\ DOMAIN streamStates = {SessionId("r1"), SessionId("r2")}
  /\ written["r1"] # <<>>
  /\ written["r2"] # <<>>

\* C3: a session that finished with 'end' has written exactly one message_stop,
\* and it is the last event written.
C3_OneMessageStopAtEnd ==
  \A r \in Active :
    up[r] = "ended" =>
      /\ CountEv(written[r], "message_stop", -1) = 1
      /\ written[r][Len(written[r])].ev = "message_stop"

\* C4: no stream state has both textBlockStarted and thinkingBlockStarted.
C4_TextThinkingExclusive ==
  \A k \in DOMAIN streamStates :
    ~(streamStates[k].textBlockStarted /\ streamStates[k].thinkingBlockStarted)

\* C4's case: a text block is open in a session that opened a thinking block before.
C4_Witness ==
  \E r \in Active :
    /\ SessionId(r) \in DOMAIN streamStates
    /\ streamStates[SessionId(r)].textBlockStarted
    /\ \E p \in 1..Len(written[r]) :
         written[r][p].ev = "content_block_start" /\ written[r][p].kind = "thinking"

\* C5: while tool blocks are open, no text block and no thinking block is open.
C5_ToolsExcludeTextThinking ==
  \A k \in DOMAIN streamStates :
    Len(streamStates[k].toolBlocks) > 0 =>
      ~streamStates[k].textBlockStarted /\ ~streamStates[k].thinkingBlockStarted

\* C5's case: two tool blocks are open together in a session that had a text block.
C5_Witness ==
  \E r \in Active :
    /\ SessionId(r) \in DOMAIN streamStates
    /\ Len(streamStates[SessionId(r)].toolBlocks) = 2
    /\ \E p \in 1..Len(written[r]) :
         written[r][p].ev = "content_block_start" /\ written[r][p].kind = "text"

\* C6: a streaming session none of whose chunks carries delta.role has written
\* no event.
C6_NoRoleNoEvents ==
  \A r \in Active :
    (pc[r] = "streaming" /\ \A l \in LinesOf(fed[r]) : ~UpstreamLines[l].role)
      => written[r] = <<>>

\* C7: once a streamed session has terminated ([DONE] then 'end', a stream error,
\* a client disconnect, or 'end'), the Map has no entry for its sessionId.
C7_StateReleased ==
  \A r \in Active :
    up[r] \in {"ended", "errored", "destroyed"} => SessionId(r) \notin DOMAIN streamStates

\* C8: when the upstream answered 429 and the response has been sent,
\* markAccountRateLimited has been called exactly once, stream or not.
C8_MarkedOn429 ==
  \A r \in Active :
    (answered[r] = 429 /\ res[r].sends > 0) => calls[r].mark = 1

\* C9: when the upstream stream fails, and ever after, the response is ended, nothing
\* more is written (no message_stop), no status and no body is sent.
C9_MidStreamFailure ==
  [][\A r \in Requests :
       up'[r] = "errored" =>
         /\ res'[r].ended
         /\ written'[r] = written[r]
         /\ res'[r].status = 0
         /\ res'[r].sends = 0]_vars

\* C9's case: the upstream failed after events had been written.
C9_Witness ==
  \E r \in Active : up[r] = "errored" /\ written[r] # <<>>

\* C10: a failure answered before any byte was written has the error envelope
\* {type: "error", error: {type, message}} as its body.
C10_ErrorEnvelope ==
  \A r \in Active :
    (res[r].sends > 0 /\ res[r].status >= 400) =>
      /\ res[r].body.type = "error"
      /\ res[r].body.errType # "absent"
      /\ res[r].body.hasMessage

\* The request has no permission for OpenAI: its key's permissions field is set and is
\* neither 'all' nor 'openai' (an unset field is the 'all' permission).
NotPermitted(r) == req[r].permissions \notin {"", "all", "openai"}

\* C11: a request whose key has neither the 'openai' nor the 'all' permission is
\* answered 403 permission_error, once, and no account is selected, no upstream
\* request made, no usage recorded and no rate-limit call made for it.
C11_PermissionGate ==
  \A r \in Active :
    NotPermitted(r) =>
      /\ calls[r] = NoCalls
      /\ up[r] = "none"
      /\ pc[r] \in {"start", "done"}
      /\ pc[r] = "done" =>
            res[r].status = 403 /\ res[r].body = Envelope("permission_error")
                                /\ res[r].sends = 1

\* C11's case: a request of a key with the 'claude' permission alone was answered.
C11_Witness ==
  \E r \in Active : req[r].permissions = "claude" /\ pc[r] = "done" /\ res[r].status = 403

\* The request passed the permission gate and its body was converted.
Converted(r) == ~NotPermitted(r) /\ ~req[r].malformed

\* The request never reached account selection or the upstream, and its answer, once
\* sent, is 403 invalid_request_error.
RejectedAsRestricted(r) ==
  /\ calls[r].select = 0
  /\ calls[r].send = 0
  /\ up[r] = "none"
  /\ pc[r] \in {"start", "done"}
  /\ pc[r] = "done" =>
        res[r].status = 403 /\ res[r].body = Envelope("invalid_request_error")

Selected(r) == calls[r].select = 1 /\ pc[r] # "select"

\* No upstream request was made with a key that is not usable, and at most one made.
NoRequestWithoutKey(r) == calls[r].send > 0 => calls[r].send = 1 /\ calls[r].key = "valid"

\* The accountData the handler holds after selection (and refetch) is not usable:
\* the request is answered 503 and no upstream request is made.
RejectedWithoutKey(r) ==
  (pc[r] = "done" /\ calls[r].selection.ok /\ acct[r] # "valid")
    => res[r].status = 503 /\ res[r].body = Envelope("configuration_error")
                           /\ calls[r].send = 0

\* C13 (as stated): when selection fails or returns missing or redacted credentials,
\* the account is refetched exactly once; credentials still unusable are answered
\* 503; no upstream request is made with a missing or redacted key.
C13_AsStated ==
  \A r \in Active :
    /\ (Selected(r) /\ (~calls[r].selection.ok
                          \/ calls[r].selection.data \in {"none", "redacted", "nokey"}))
         => calls[r].refetch = 1
    /\ RejectedWithoutKey(r)
    /\ NoRequestWithoutKey(r)

\* C13 (amended): when selection returns, for an account of type openai or
\* openai-responses, no accountData or the redacted key, the account is refetched
\* exactly once; in every other case it is not refetched, and a failed selection is
\* answered 503 overloaded_error; credentials still unusable are answered 503; no
\* upstream request is made with a missing or redacted key.
C13_Refetch ==
  \A r \in Active :
    /\ Selected(r) =>
         LET o == calls[r].selection
         IN /\ calls[r].refetch =
                 (IF o.ok /\ o.data \in {"none", "redacted"}
                          /\ o.type \in {"openai", "openai-responses"} THEN 1 ELSE 0)
            /\ ~o.ok => /\ pc[r] = "done"
                         /\ res[r].status = 503
                         /\ res[r].body = Envelope("overloaded_error")
                         /\ calls[r].send = 0
    /\ ~Selected(r) => calls[r].refetch = 0
    /\ RejectedWithoutKey(r)
    /\ NoRequestWithoutKey(r)

\* C13's case: the selection returned the redacted key, the account was refetched
\* once, the key was still not usable and the request was answered 503.
C13_Witness ==
  \E r \in Active :
    /\ calls[r].selection.data = "redacted"
    /\ calls[r].refetch = 1
    /\ acct[r] \in {"none", "redacted", "nokey"}
    /\ pc[r] = "done"
    /\ res[r].status = 503

\* C14: a non-stream request whose upstream request was made is answered exactly
\* once: 500 api_error on a transport error, 502 api_error when the body is not JSON,
\* and whenever the upstream status is >= 400, that status with the upstream error
\* type (api_error when it has none) and message.
C14_NonStreamStatuses ==
  \A r \in Active :
    (~req[r].stream /\ pc[r] = "done" /\ calls[r].send = 1) =>
      LET o == calls[r].answer
      IN /\ res[r].sends = 1
         /\ o.thrown => res[r].status = 500 /\ res[r].body = Envelope("api_error")
         /\ (~o.thrown /\ ~o.json) =>
               res[r].status = 502 /\ res[r].body = Envelope("api_error")
         /\ (~o.thrown /\ o.statusCode >= 400) =>
               /\ res[r].status = o.statusCode
               /\ res[r].body = Envelope(IF o.errTyped THEN "upstream" ELSE "api_error")

\* The request completed: the non-stream answer was converted, or the stream
\* reached the upstream's 'end'.
Completed(r) ==
  IF req[r].stream THEN up[r] = "ended"
  ELSE LET o == calls[r].answer
       IN ~o.thrown /\ o.json /\ ~o.isNull /\ o.statusCode = 200 /\ o.choices = "one"

\* C15: a completed request has asked isAccountRateLimited once;
\* removeAccountRateLimit is called, once, exactly when it answered true; a request
\* that did not complete calls neither.
C15_RateLimitCleared ==
  \A r \in Active :
    /\ Completed(r) => calls[r].isLimited = 1
    /\ calls[r].remove = (IF calls[r].limited = "true" THEN 1 ELSE 0)
    /\ ~Completed(r) => calls[r].isLimited = 0 /\ calls[r].remove = 0

\* C15's case: a stream ended, isAccountRateLimited answered true and the flag was
\* removed.
C15_Witness ==
  \E r \in Active :
    req[r].stream /\ up[r] = "ended" /\ calls[r].limited = "true" /\ calls[r].remove = 1

SideEffects == {"usage", "counters", "isLimited", "remove"}

\* Each side effect in the log was started after message_stop was written and the
\* response ended.
StartedAfterEnd(log) ==
  \A i \in 1..Len(log) :
    log[i] \in SideEffects =>
      /\ \E j \in 1..(i - 1) : log[j] = "message_stop"
      /\ \E j \in 1..(i - 1) : log[j] = "end"

\* C16: in a streamed session every side effect is started after message_stop was
\* written and the response ended, and once the stream has ended no step, whatever the
\* side effects answer, changes the events written or the response.
C16_SideEffectsAfterEnd ==
  [][\A r \in Requests :
       req[r].stream =>
         /\ StartedAfterEnd(calls'[r].log)
         /\ up[r] = "ended" => written'[r] = written[r] /\ res'[r] = res[r]]_vars

\* C16's case: a stream ended with usage recorded, and isAccountRateLimited failed.
C16_Witness ==
  \E r \in Active :
    /\ req[r].stream
    /\ up[r] = "ended"
    /\ calls[r].usage = 1
    /\ calls[r].limited = "throws"
    /\ written[r][Len(written[r])].ev = "message_stop"

\* The frames, blank ones left out, that the bytes make when they arrive in one chunk.
FramesOfWhole(bytes) ==
  LET frames == CompleteFrames(Decode(bytes))
  IN SelectSeq(frames, LAMBDA f : ~IsBlank(f))

\* C17: the frames handed to the translator, and the tail kept in the buffer, are
\* those of the delivered bytes taken as one chunk, however the bytes were cut into
\* chunks.
C17_ChunkingInvariant ==
  \A r \in Active :
    up[r] = "open" =>
      /\ fed[r] = FramesOfWhole(delivered[r])
      /\ buffer[r] = TailBuffer(Decode(delivered[r]))

\* The frame has a line that is JSON or [DONE].
HasData(frame) ==
  LET lines == SplitLines(frame, <<>>)
  IN \E i \in 1..Len(lines) : LineData(lines[i]).kind # "garbage"

\* The frames run through the 'data' handler's loop from an empty Map.
RunFrames(frames, sessionId) ==
  DataFrames([map |-> [k \in {} |-> NewStreamState], totals |-> [input |-> 0, output |-> 0],
              written |-> <<>>, frames |-> <<>>],
             frames, sessionId)

\* C18: the events written for a session and the state kept for it are those of its
\* frames with the lines that are not JSON left out.
C18_GarbageSkipped ==
  \A r \in Active :
    LET clean == RunFrames(SelectSeq(fed[r], HasData), SessionId(r))
    IN /\ written[r] = clean.written
                          \o (IF up[r] = "ended"
                              THEN <<Ev("message_stop", -1, "message", 0)>> ELSE <<>>)
       /\ streamStates = clean.map

\* C18's case: a role chunk, then a line that is not JSON, then a content chunk whose
\* events were written.
C18_Witness ==
  \E r \in Active :
    /\ Len(fed[r]) = 3
    /\ fed[r][1] = <<1>>
    /\ fed[r][2] = <<10>>
    /\ fed[r][3] = <<2>>
    /\ HasEv(written[r], "content_block_delta")

\* convertRequest has returned.
ConvertDone == openaiRequest # NotConverted

\* C19: for each of the variants auto, any, tool and none of tool_choice, the
\* converted request has parallel_tool_calls false exactly when tool_choice carries
\* disable_parallel_tool_use = true, and has it unset otherwise.
C19_ParallelToolCalls ==
  (ConvertDone /\ claudeRequest.tool_choice.type \in {"auto", "any", "tool", "none"}) =>
    IF claudeRequest.tool_choice.disable = "true"
    THEN openaiRequest.parallel_tool_calls = "false"
    ELSE openaiRequest.parallel_tool_calls = "unset"

\* The tool_result blocks of a message, in order.
ToolResults(msg) == IF msg.isString THEN <<>> ELSE BlocksOf(msg.blocks, {"tool_result"})

\* The messages a request has in its output before those of its i-th message.
RECURSIVE Before(_, _)
Before(q, i) ==
  IF i = 1 THEN (IF q.system \in {"string", "array"} THEN 1 ELSE 0)
  ELSE Before(q, i - 1) + (IF ToolResults(q.messages[i - 1]) = <<>> THEN 1
                           ELSE Len(ToolResults(q.messages[i - 1])))

\* C20: a message with n >= 1 tool_result blocks gives exactly n messages of role
\* tool, in block order, each with the block's tool_use_id as tool_call_id and
\* nothing of the other blocks; every other message gives one message of its
\* role; the output follows the order of the input messages.
C20_ToolResultMessages ==
  ConvertDone =>
    LET q == claudeRequest
        out == openaiRequest.messages
    IN /\ Len(out) = Before(q, Len(q.messages) + 1)
       /\ \A i \in 1..Len(q.messages) :
            LET results == ToolResults(q.messages[i])
                at == Before(q, i)
            IN IF results = <<>> THEN out[at + 1].role = q.messages[i].role
               ELSE \A j \in 1..Len(results) :
                      /\ out[at + j].role = "tool"
                      /\ out[at + j].tool_call_id = results[j].id
                      /\ out[at + j].parts = <<>>
                      /\ out[at + j].tool_calls = <<>>

\* C20's case: a system prompt, a message without tool results, then a message of
\* a text block and two tool_result blocks, converted.
C20_Witness ==
  /\ ConvertDone
  /\ claudeRequest.system = "string"
  /\ Len(claudeRequest.messages) = 2
  /\ claudeRequest.messages[1] = Message("assistant", TRUE, <<>>)
  /\ ~claudeRequest.messages[2].isString
  /\ Len(claudeRequest.messages[2].blocks) = 3
  /\ claudeRequest.messages[2].blocks[1].type = "text"
  /\ Len(ToolResults(claudeRequest.messages[2])) = 2
  /\ Len(openaiRequest.messages) = 4

\* convertResponse has returned a message.
ResponseDone == claudeResponse # NotResponded /\ ~claudeResponse.thrown

\* The place of a block type in the order of the content.
BlockRank(type) == IF type = "text" THEN 1 ELSE IF type = "thinking" THEN 2 ELSE 3

\* The content is in the order text, thinking, tool_use blocks, with one text and
\* one thinking block at most, and its tool_use blocks are those of these
\* tool_calls entries, in their order.
ContentInOrder(content, entries) ==
  /\ \A i, j \in 1..Len(content) :
       i < j => /\ BlockRank(content[i].type) <= BlockRank(content[j].type)
                /\ content[j].type = "tool_use" \/ content[i].type # content[j].type
  /\ LET uses == SelectSeq(content, LAMBDA b : b.type = "tool_use")
     IN /\ Len(uses) = Len(entries)
        /\ \A i \in 1..Len(uses) : uses[i].id = entries[i].id

\* C21 as stated, k being the number of entries of tool_calls: the content has
\* k, k + 1 or k + 2 blocks.
C21_AsStated ==
  ResponseDone =>
    Len(claudeResponse.content) - Len(openaiResponse.tool_calls) \in {0, 1, 2}

\* C21: with k the number of tool_calls entries of type function, the content has
\* k, k + 1 or k + 2 blocks, in the order text, thinking, then one tool_use block
\* for each of these entries in upstream order.
C21_ContentOrder ==
  ResponseDone =>
    LET entries == SelectSeq(openaiResponse.tool_calls, LAMBDA t : t.type = "function")
    IN /\ Len(claudeResponse.content) - Len(entries) \in {0, 1, 2}
       /\ ContentInOrder(claudeResponse.content, entries)

\* C21's case: a response with text, reasoning_content and two tool_calls entries,
\* the second of type function, converted to three blocks.
C21_Witness ==
  /\ ResponseDone
  /\ openaiResponse.content = "text"
  /\ openaiResponse.reasoning = "text"
  /\ Len(openaiResponse.tool_calls) = 2
  /\ openaiResponse.tool_calls[1].type = "custom"
  /\ openaiResponse.tool_calls[2].type = "function"
  /\ Len(claudeResponse.content) = 3

\* The upstream answered the non-stream request r with a success status and a JSON
\* object whose choices list is missing or empty.
AnsweredWithoutChoices(r) ==
  LET o == calls[r].answer
  IN /\ ~req[r].stream
     /\ calls[r].send = 1
     /\ ~o.thrown /\ o.json /\ ~o.isNull /\ o.statusCode \in 1..399
     /\ o.choices \in {"missing", "empty"}

\* C22: convertResponse throws on a response whose choices list is missing or
\* empty; the non-stream request so answered gets an error response, and no usage
\* is recorded, no counter reported, no rate-limit flag looked up or cleared.
C22_NoChoices ==
  \A r \in Active :
    AnsweredWithoutChoices(r) =>
      /\ ConvertResponse(OpenaiData(calls[r].answer)).thrown
      /\ calls[r].usage = 0 /\ calls[r].counters = 0
      /\ calls[r].isLimited = 0 /\ calls[r].remove = 0
      /\ pc[r] = "done"
      /\ res[r].sends = 1 /\ res[r].status >= 400 /\ res[r].body.type = "error"

\* C22's case: the response had an empty choices list and a usage object, and the
\* request has been answered.
C22_Witness ==
  \E r \in Active :
    /\ AnsweredWithoutChoices(r)
    /\ calls[r].answer.choices = "empty"
    /\ calls[r].answer.usage
    /\ res[r].sends = 1

\* The events p..q-1 are content_block_stop events: the blocks closed just before
\* the event q.
ClosedJustBefore(evs, p, q) ==
  p < q /\ \A i \in p..(q - 1) : evs[i].ev = "content_block_stop"

\* C23: a text or thinking block opened right after open blocks were closed has an
\* index greater than the index of every block just closed, the tool blocks'
\* upstream indices among them.
C23_IndexAfterTools ==
  \A r \in Active :
    \A q \in 1..Len(written[r]) :
      (written[r][q].ev = "content_block_start" /\ written[r][q].kind \in {"text", "thinking"})
        => \A p \in 1..q : ClosedJustBefore(written[r], p, q)
                             => written[r][q].index > written[r][p].index

\* C24: while a session's stream state exists, its contentBlockIndex is not
\* negative and no step lowers it.
C24_IndexMonotonic ==
  [][\A k \in DOMAIN streamStates :
       /\ streamStates[k].contentBlockIndex >= 0
       /\ k \in DOMAIN streamStates' =>
            streamStates'[k].contentBlockIndex >= streamStates[k].contentBlockIndex]_vars

\* C25: when the last event written is a message_delta, no block is open in the
\* session's state; a message_delta is followed by no content_block_start,
\* content_block_delta, content_block_stop and by no second message_delta.
C25_MessageDeltaLast ==
  \A r \in Active :
    /\ (written[r] # <<>> /\ written[r][Len(written[r])].ev = "message_delta"
          /\ SessionId(r) \in DOMAIN streamStates) =>
         LET st == streamStates[SessionId(r)]
         IN ~st.textBlockStarted /\ ~st.thinkingBlockStarted /\ st.toolBlocks = <<>>
    /\ \A p, q \in 1..Len(written[r]) :
         (p < q /\ written[r][p].ev = "message_delta") =>
           written[r][q].ev \notin {"content_block_start", "content_block_delta",
                                    "content_block_stop", "message_delta"}

\* The event p is a content_block_stop that closes a thinking block: the block last
\* started at its index, and not stopped since, is a thinking block.
ClosesThinking(evs, p) ==
  /\ evs[p].ev = "content_block_stop"
  /\ \E s \in 1..(p - 1) :
       /\ evs[s] = Ev("content_block_start", evs[p].index, "thinking", 0)
       /\ \A t \in (s + 1)..(p - 1) :
            ~(evs[t].ev \in {"content_block_start", "content_block_stop"}
                /\ evs[t].index = evs[p].index)

\* C26: every content_block_stop that closes a thinking block comes right after a
\* signature_delta at the same index.
C26_SignatureBeforeStop ==
  \A r \in Active : \A p \in 1..Len(written[r]) :
    ClosesThinking(written[r], p) =>
      written[r][p - 1] = Ev("content_block_delta", written[r][p].index, "signature_delta", 0)

\* C26's case: a thinking block was opened and then closed by a tool_calls delta.
C26_Witness ==
  \E r \in Active :
    /\ Len(fed[r]) >= 2
    /\ fed[r][1] = <<3>>
    /\ fed[r][2] = <<4>>
    /\ \E p \in 1..Len(written[r]) : ClosesThinking(written[r], p)

\* The argument fragments the upstream sent for the tool at this upstream index, in
\* the order sent: the arguments of the entries of the tool_calls deltas.
RECURSIVE FragmentsOf(_, _)
FragmentsOf(tool_calls, index) ==
  IF tool_calls = <<>> THEN <<>>
  ELSE (IF Head(tool_calls).index = index /\ Head(tool_calls).args # 0
        THEN <<Head(tool_calls).args>> ELSE <<>>) \o FragmentsOf(Tail(tool_calls), index)

RECURSIVE FragmentsSent(_, _)
FragmentsSent(frames, index) ==
  IF frames = <<>> THEN <<>>
  ELSE LET c == LineData(Head(frames))
       IN (IF c.kind = "json" /\ c.choices /\ c.content = 0 /\ c.reasoning = 0
           THEN FragmentsOf(c.tool_calls, index) ELSE <<>>)
            \o FragmentsSent(Tail(frames), index)

\* The partial_json of the input_json_delta events at this index, in order.
RECURSIVE FragmentsWritten(_, _)
FragmentsWritten(evs, index) ==
  IF evs = <<>> THEN <<>>
  ELSE (IF Head(evs).ev = "content_block_delta" /\ Head(evs).kind = "input_json_delta"
            /\ Head(evs).index = index
        THEN <<Head(evs).val>> ELSE <<>>) \o FragmentsWritten(Tail(evs), index)

\* C27: between two content_block_start events of tool_use blocks at the same
\* index there is a content_block_stop for that index; and for each upstream index
\* the input_json_delta events carry the fragments sent for it, unchanged and in
\* the order sent.
C27_ToolBlocks ==
  \A r \in Active :
    /\ \A s, q \in 1..Len(written[r]) :
         (s < q /\ written[r][s].ev = "content_block_start" /\ written[r][s].kind = "tool_use"
            /\ written[r][q].ev = "content_block_start" /\ written[r][q].kind = "tool_use"
            /\ written[r][s].index = written[r][q].index)
           => \E t \in (s + 1)..(q - 1) :
                written[r][t] = Ev("content_block_stop", written[r][q].index, "stop", 0)
    /\ \A index \in {0, 1} :
         FragmentsWritten(written[r], index) = FragmentsSent(fed[r], index)

\* C27's case: tools 0 and 1 are started, one delta brings a fragment for each, then
\* tool 0 is started anew with a fragment while its block is open.
C27_Witness ==
  \E r \in Active :
    /\ fed[r] = << <<4>>, <<5>>, <<14>>, <<15>> >>
    /\ FragmentsWritten(written[r], 0) = <<3, 5>>
    /\ FragmentsWritten(written[r], 1) = <<1, 4>>
    /\ \E t \in 1..Len(written[r]) : written[r][t] = Ev("content_block_stop", 0, "stop", 0)

\* The deltas with more than one of content, reasoning_content and tool_calls.
Deltas ==
  { Delta(FALSE, 2, 1, <<>>, FALSE),
    Delta(FALSE, 2, 0, <<ToolCall(0, 3, 1)>>, FALSE),
    Delta(FALSE, 0, 1, <<ToolCall(1, 3, 0), ToolCall(0, 0, 1)>>, FALSE),
    Delta(FALSE, 2, 1, <<ToolCall(0, 3, 1)>>, FALSE) }

\* The delta with only the first of its fields in the order content,
\* reasoning_content, tool_calls.
FirstOnly(c) ==
  IF c.content # 0 THEN [c EXCEPT !.reasoning = 0, !.tool_calls = <<>>]
  ELSE IF c.reasoning # 0 THEN [c EXCEPT !.tool_calls = <<>>]
  ELSE c

\* At most one non-tool block is open, and none while a tool block is open.
Exclusive(st) ==
  /\ ~(st.textBlockStarted /\ st.thinkingBlockStarted)
  /\ st.toolBlocks # <<>> => ~st.textBlockStarted /\ ~st.thinkingBlockStarted

\* C28: in every state a session can be in, a delta with several of the fields gives
\* the events and the state that the delta with only its first field present gives, and the state after it
\* has at most one kind of block open.
C28_OneBranch ==
  \A k \in DOMAIN streamStates : \A c \in Deltas :
    LET after == ConvertStreamEvent(streamStates[k], c)
    IN /\ after = ConvertStreamEvent(streamStates[k], FirstOnly(c))
       /\ Exclusive(after.st)

\* C28's case: a delta with content and tool_calls arrived while a tool block was
\* open; the text was written and the tool call of the delta was not started.
C28_Witness ==
  \E r \in Active :
    /\ Len(fed[r]) = 2
    /\ fed[r][1] = <<4>>
    /\ fed[r][2] = <<9>>
    /\ \E p \in 1..Len(written[r]) : written[r][p].kind = "text_delta" /\ written[r][p].val = 2
    /\ \A p \in 1..Len(written[r]) : ~(written[r][p].kind = "tool_use" /\ written[r][p].val = 3)

\* C29: a step in which the only frame handed to the converter is a chunk without
\* choices writes no event and leaves the Map of stream states as it was.
C29_NoChoicesNoOp ==
  [][\A r \in Requests :
       fed'[r] = Append(fed[r], <<11>>) =>
         /\ written'[r] = written[r]
         /\ streamStates' = streamStates]_vars

\* The counts kept from a chunk's usage: a zero or absent count leaves the one kept.
Latest(acc, c) ==
  IF c.usage
  THEN [acc EXCEPT !.input = IF c.prompt # 0 THEN c.prompt ELSE @,
                   !.output = IF c.completion # 0 THEN c.completion ELSE @]
  ELSE acc

\* The output_tokens C30 states for the message_delta of each terminal chunk: the
\* sum of the latest non-zero counts of all the chunks up to it.
RECURSIVE Stated(_, _)
Stated(frames, acc) ==
  IF frames = <<>> THEN <<>>
  ELSE LET c == LineData(Head(frames))
           a == IF c.kind = "json" THEN Latest(acc, c) ELSE acc
       IN (IF c.kind = "json" /\ c.choices /\ c.finish THEN <<a.input + a.output>> ELSE <<>>)
            \o Stated(Tail(frames), a)

\* The same, from the chunks that have a choice, the counts being zero at
\* message_start.
RECURSIVE Reported(_, _)
Reported(frames, acc) ==
  IF frames = <<>> THEN <<>>
  ELSE LET c == LineData(Head(frames))
       IN IF c.kind = "done"
          THEN Reported(Tail(frames), [started |-> FALSE, input |-> 0, output |-> 0])
          ELSE IF c.kind # "json" \/ ~c.choices THEN Reported(Tail(frames), acc)
          ELSE LET a == Latest(IF c.role /\ ~acc.started
                               THEN [started |-> TRUE, input |-> 0, output |-> 0] ELSE acc, c)
               IN (IF c.finish THEN <<a.input + a.output>> ELSE <<>>)
                    \o Reported(Tail(frames), a)

\* The output_tokens of the message_delta events, in order.
RECURSIVE DeltasWritten(_)
DeltasWritten(evs) ==
  IF evs = <<>> THEN <<>>
  ELSE (IF Head(evs).ev = "message_delta" THEN <<Head(evs).val>> ELSE <<>>)
         \o DeltasWritten(Tail(evs))

\* C30 as stated: every message_delta reports the sum of the latest non-zero
\* prompt_tokens and completion_tokens of the session's chunks up to it.
C30_AsStated ==
  \A r \in Active :
    DeltasWritten(written[r]) = Stated(fed[r], [started |-> FALSE, input |-> 0, output |-> 0])

\* C30: every message_delta reports as output_tokens the sum of the latest non-zero
\* prompt_tokens and completion_tokens of the chunks that have a choice, counted
\* from message_start, which sets both to zero.
C30_UsageReported ==
  \A r \in Active :
    DeltasWritten(written[r]) = Reported(fed[r], [started |-> FALSE, input |-> 0, output |-> 0])

\* C30's case: after message_start a chunk brings both counts, a second one
\* prompt_tokens alone, and the terminal chunk has no usage: 5 + 4 is reported.
C30_Witness ==
  \E r \in Active :
    /\ fed[r] = << <<1>>, <<17>>, <<18>>, <<16>> >>
    /\ DeltasWritten(written[r]) = <<9>>

\* The prompt_tokens and completion_tokens (0 when absent) of the last usage object
\* among the data lines, none seen giving 0 and 0.
RECURSIVE UsageSeen(_, _)
UsageSeen(lines, acc) ==
  IF lines = <<>> THEN acc
  ELSE LET c == LineData(Head(lines))
       IN UsageSeen(Tail(lines),
                    IF Head(lines) # <<>> /\ c.kind = "json" /\ c.usage
                    THEN [input |-> c.prompt, output |-> c.completion] ELSE acc)

\* The usage objects of all the data lines the 'data' handler received.
UsageReceived(r) ==
  UsageSeen(SplitLines(Decode(delivered[r]), <<>>), [input |-> 0, output |-> 0])

\* C31: the usage of a streamed session is recorded at most once and only when the
\* upstream has ended; once it has ended, the usage is recorded exactly when a total
\* of the last usage object received is greater than 0, with that object's totals.
C31_UsageRecorded ==
  \A r \in Active :
    req[r].stream =>
      /\ calls[r].usage <= 1
      /\ calls[r].usage = 1 => up[r] = "ended"
      /\ up[r] = "ended" =>
           LET u == UsageReceived(r)
           IN /\ calls[r].usage = (IF u.input > 0 \/ u.output > 0 THEN 1 ELSE 0)
              /\ calls[r].usage = 1 => calls[r].usageArg = u

\* The reset time C32 states for a 429 error: the seconds of a matching timestamp in
\* msg, otherwise resets_in_seconds, otherwise none (-1).
StatedResetTime(e) ==
  IF e.body.text = "json" /\ e.body.object
  THEN IF e.body.msgSeconds # -1 THEN e.body.msgSeconds
       ELSE IF e.body.resets # 0 THEN e.body.resets
       ELSE -1
  ELSE -1

\* C32: markAccountRateLimited is given the seconds computed from a matching
\* timestamp in msg when there is one, otherwise resets_in_seconds when present,
\* otherwise no value; and whatever the body and whatever markAccountRateLimited
\* does, the request that failed with 429 is answered, once, with status 429.
C32_ResetTimePrecedence ==
  \A r \in Active :
    /\ calls[r].mark > 0 => calls[r].markArg = StatedResetTime(err[r])
    /\ (calls[r].mark > 0 /\ pc[r] = "done") => res[r].sends = 1 /\ res[r].status = 429

\* C33: for a request that passes the permission gate and that the model restriction
\* rejects, convertRequest is never called, and its answer is 403
\* invalid_request_error, well-formed body or not.
C33_StageOrder ==
  \A r \in Active :
    (~NotPermitted(r) /\ ModelDenied(req[r])) =>
      /\ calls[r].convert = 0
      /\ pc[r] = "done" =>
            res[r].status = 403 /\ res[r].body = Envelope("invalid_request_error")

\* The place of the first message_stop among the events, or one past their end.
FirstStop(evs) ==
  LET S == {p \in 1..Len(evs) : evs[p].ev = "message_stop"}
  IN IF S = {} THEN Len(evs) + 1 ELSE CHOOSE p \in S : \A q \in S : p <= q

\* The place of the first [DONE] frame among the frames, or one past their end.
FirstDone(frames) ==
  LET S == {i \in 1..Len(frames) : LineData(frames[i]).kind = "done"}
  IN IF S = {} THEN Len(frames) + 1 ELSE CHOOSE i \in S : \A j \in S : i <= j

\* C34: up to [DONE] (or the end of the stream), message_start is written when a chunk
\* has carried a role, at most once, and as the first event of the session.
C34_MessageStartFirst ==
  \A r \in Active :
    LET evs == written[r]
        starts == {p \in 1..(FirstStop(evs) - 1) : evs[p].ev = "message_start"}
    IN /\ (\E i \in 1..(FirstDone(fed[r]) - 1) : LineData(fed[r][i]).role) => starts # {}
       /\ Cardinality(starts) <= 1
       /\ starts # {} => starts = {1}

\* No message begins or ends between the events at p and at q.
SameMessage(evs, p, q) ==
  \A s \in p..q : evs[s].ev \notin {"message_start", "message_delta", "message_stop"}

\* C35: two blocks started at the same index within one message are both tool
\* blocks, the first of them closed before the second is started.
C35_DistinctIndices ==
  \A r \in Active :
    LET evs == written[r]
    IN \A p, q \in 1..Len(evs) :
         (/\ p < q
          /\ evs[p].ev = "content_block_start"
          /\ evs[q].ev = "content_block_start"
          /\ evs[p].index = evs[q].index
          /\ SameMessage(evs, p, q))
           => /\ evs[p].kind = "tool_use"
              /\ evs[q].kind = "tool_use"
              /\ \E s \in (p + 1)..(q - 1) :
                   evs[s].ev = "content_block_stop" /\ evs[s].index = evs[p].index

\* The kind of block a delta belongs to.
BlockKind(delta) ==
  IF delta = "text_delta" THEN "text"
  ELSE IF delta = "input_json_delta" THEN "tool_use"
  ELSE "thinking"

\* A block of the kind is open at index i just before the event at p: it was started
\* and no content_block_stop of that index has followed.
OpenAt(evs, p, kind, i) ==
  \E s \in 1..(p - 1) :
    /\ evs[s].ev = "content_block_start"
    /\ evs[s].index = i
    /\ evs[s].kind = kind
    /\ \A t \in (s + 1)..(p - 1) : ~(evs[t].ev = "content_block_stop" /\ evs[t].index = i)

\* C36: every content_block_delta is written while a block of its kind is open at
\* its index.
C36_DeltasTargetOpenBlock ==
  \A r \in Active :
    \A p \in 1..Len(written[r]) :
      written[r][p].ev = "content_block_delta" =>
        OpenAt(written[r], p, BlockKind(written[r][p].kind), written[r][p].index)

\* C37: a request that calls removeAccountRateLimit was not in flight when the flag
\* it finds was set.
C37_ClearedByLaterRequest ==
  [][\A r \in Requests :
       calls'[r].remove > calls[r].remove => r \notin rateLimit.inflight]_vars

\* C38: a non-stream request whose upstream answer was converted is answered 200 with
\* the converted message, whatever isAccountRateLimited and removeAccountRateLimit
\* do; and no non-stream request answered with an error has usage recorded.
C38_SuccessDespiteRateLimit ==
  \A r \in Active :
    (~req[r].stream /\ pc[r] = "done") =>
      /\ Completed(r) => res[r].status = 200 /\ res[r].body = Body("message", "absent", FALSE)
      /\ res[r].status >= 400 => calls[r].usage = 0

\* In every step the response of r is completed at most once (one JSON response,
\* which ends it, or one res.end()), and once ended it is left as it is and nothing
\* is written to it.
AtMostOnce(r) ==
  /\ res'[r].ends <= 1
  /\ res'[r].sends <= res'[r].ends
  /\ res[r].ended => res'[r] = res[r] /\ written'[r] = written[r]

\* C39 as stated: the response of every request whose handling is over has been
\* completed exactly once, and nothing is written after its end.
C39_AsStated ==
  [][\A r \in Requests :
       /\ AtMostOnce(r)
       /\ pc'[r] = "done" => res'[r].ends = 1]_vars

\* C39: the response is completed at most once and nothing is written after its end,
\* whatever the order of 'data', 'end', 'error' and 'close'; the response of a request
\* whose handling is over has been completed exactly once unless the client closed
\* the connection while the stream was open.
C39_CompletedOnce ==
  [][\A r \in Requests :
       /\ AtMostOnce(r)
       /\ (pc'[r] = "done" /\ up'[r] # "destroyed") => res'[r].ends = 1]_vars

\* C39's case: a stream wrote events, ended, and the answer of isAccountRateLimited
\* came after the end: the response was ended once.
C39_Witness ==
  \E r \in Active :
    /\ req[r].stream
    /\ pc[r] = "done"
    /\ up[r] = "ended"
    /\ Len(fed[r]) >= 2
    /\ res[r].ends = 1

\* The lines of the bytes, empty ones left out.
LinesIn(bytes) == SelectSeq(SplitLines(bytes, <<>>), LAMBDA l : l # <<>>)

\* The lines of the frames handed to the translator, in order.
RECURSIVE FedLines(_)
FedLines(frames) ==
  IF frames = <<>> THEN <<>> ELSE LinesIn(Head(frames)) \o FedLines(Tail(frames))

\* C40: when the stream has finished with 'end', every line the handler received has
\* been handed to the translator and no line is left in the tail buffer.
C40_TailDelivered ==
  \A r \in Active :
    up[r] = "ended" =>
      /\ FedLines(fed[r]) = LinesIn(Decode(delivered[r]))
      /\ LinesIn(buffer[r]) = <<>>

====
